---- MODULE Spec2Model ----
(***************************************************************************)
(* Model of the accessibility scanning and lawsuit-risk pipeline:          *)
(*   ScannerService      (services/scanner_service.py)                     *)
(*   LawsuitCalculator   (services/lawsuit_calculator.py)                  *)
(*   /scan, /scan/premium (routes/scanner.py)                              *)
(*                                                                         *)
(* Python values whose type the code does not control (a request's         *)
(* max_pages, the fields of a scan_results mapping) are tagged tuples:     *)
(* <<"int", n>>, <<"str", s>>, <<"None">>, <<"list", s>>, <<"dict", f>>.   *)
(* Money and probabilities are integers; the halves and tenths Python      *)
(* computes in floating point are carried as scaled integers and are exact *)
(* for the magnitudes that occur.                                          *)
(***************************************************************************)
EXTENDS Integers, Sequences, FiniteSets, TLC

VARIABLES
    pc,                     \* position of the running scan_website call
    url,                    \* scan_website's url argument
    max_pages,              \* scan_website's max_pages argument (tagged)
    pages,                  \* _discover_pages: the set `pages`
    sitemap_urls,           \* _discover_pages: what _get_sitemap_urls returned
    homepage_links,         \* _discover_pages: what _get_homepage_links returned
    common_pages,           \* _discover_pages: what _get_common_pages returned
    discovered,             \* scan_website: the list `pages` (_discover_pages' result)
    idx,                    \* scan_website: position of the for loop in pages[:max_pages]
    all_violations,         \* scan_website: all_violations
    pages_with_violations,  \* scan_website: pages_with_violations
    net,                    \* the sleeps and HTTP requests of the scan so far, in order
    site,                   \* the responses the scanned site can give to each kind of request
    scan_result,            \* what scan_website returned (or that it raised)
    risk_in,                \* argument of the running LawsuitCalculator call
    risk_out,               \* what that call returned
    request,                \* the HTTP request an endpoint is handling
    response,               \* the HTTP response the endpoint sent
    users_db,               \* main.py: users_db, user id -> user
    websites_db,            \* main.py: websites_db, website id -> website
    scans_db,               \* main.py: scans_db, scan id -> scan
    user_counter,           \* main.py: user_counter
    website_counter,        \* main.py: website_counter
    scan_counter,           \* main.py: scan_counter
    served,                 \* the number of requests the backend has answered
    website_rows,           \* models/user.py: the rows of the Website table
    subscription,           \* models/user.py: current_user.subscription
    reply                   \* the answer to the last request to a backend

scanVars == <<pc, url, max_pages, pages, sitemap_urls, homepage_links, common_pages,
              discovered, idx, all_violations, pages_with_violations, net,
              scan_result>>
envVars == <<site>>
riskVars == <<risk_in, risk_out>>
routeVars == <<request, response>>
memoryVars == <<users_db, websites_db, scans_db, user_counter, website_counter,
                scan_counter, served>>
sqlVars == <<website_rows, subscription>>
backendVars == <<memoryVars, sqlVars, reply>>
vars == <<scanVars, envVars, riskVars, routeVars, backendVars>>

(***************************************************************************)
(* Python values                                                           *)
(***************************************************************************)
PyInt(n) == <<"int", n>>
PyStr(s) == <<"str", s>>
PyNone == <<"None">>
PyList(s) == <<"list", s>>
PyDict(f) == <<"dict", f>>
IsInt(v) == v[1] = "int"
IsNone(v) == v[1] = "None"
IsDict(v) == v[1] = "dict"

Min(a, b) == IF a < b THEN a ELSE b
Max(a, b) == IF a > b THEN a ELSE b

\* s[:n] for an integer n, negative n counting from the end
SliceTo(s, n) ==
    IF n >= 0 THEN SubSeq(s, 1, Min(n, Len(s)))
    ELSE SubSeq(s, 1, Max(Len(s) + n, 0))

\* s[:n] for a tagged n: None keeps everything, a non-integer raises TypeError
SliceRaises(n) == ~IsInt(n) /\ ~IsNone(n)
PySlice(s, n) == IF IsNone(n) THEN s ELSE SliceTo(s, n[2])

\* len(pages) < max_pages: int < str and int < None raise TypeError
LessRaises(n) == ~IsInt(n)

Range(s) == {s[i] : i \in 1..Len(s)}

\* the orders in which a Python set of strings can be iterated: hashing of
\* strings is seeded per process, so every order of the elements can occur
Orders(S) ==
    {s \in [1..Cardinality(S) -> S] : \A i, j \in 1..Cardinality(S) : s[i] = s[j] => i = j}

(***************************************************************************)
(* Bounds of the environment the scanner talks to                          *)
(***************************************************************************)
MaxPagesArg == 2        \* the largest integer max_pages a caller passes
MaxSitemapLocs == 2     \* the most <loc> elements a sitemap holds
MaxLivePaths == 2       \* how many of common_paths (from the front) may exist on the site

(***************************************************************************)
(* HTTP responses.  err: the request raised (timeout, connection, DNS);    *)
(* otherwise status and the parsed body.                                   *)
(***************************************************************************)
BaseUrl == "https://site.test"
ScanUrls == {BaseUrl}

NetError == [err |-> TRUE, status |-> 0, body |-> <<>>]
Status(code) == [err |-> FALSE, status |-> code, body |-> <<>>]
Ok(b) == [err |-> FALSE, status |-> 200, body |-> b]

\* urljoin(base_url, path) for a path that starts with "/": the path replaces
\* that of base_url; the model's base URLs are origins, without a path
urljoin(base_url, path) == base_url \o path

\* ---- _get_sitemap_urls ------------------------------------------------
SitemapLocs == {BaseUrl, "https://site.test/a", "https://site.test/b"}
SeqsUpTo(S, n) == UNION {[1..k -> S] : k \in 0..n}
\* the <loc> lists of a sitemap; /a and /b are names of any two pages that are
\* not the base URL, so the lists that name /b before /a are left out
SitemapBodies ==
    { locs \in SeqsUpTo(SitemapLocs, MaxSitemapLocs) :
        \A i \in 1..Len(locs) :
           locs[i] = "https://site.test/b" => \E j \in 1..(i - 1) : locs[j] = "https://site.test/a" }
SitemapResponses == {NetError, Status(404)} \cup {Ok(locs) : locs \in SitemapBodies}

\* the text of every <loc> of a 200 response; [] on any other status or error
_get_sitemap_urls(resp) ==
    IF ~resp.err /\ resp.status = 200 THEN resp.body ELSE <<>>

\* ---- _get_homepage_links ----------------------------------------------
\* An href is prefix \o rest.  nonpage: the joined URL contains one of
\* '.pdf', '.jpg', '.png', '.gif', '.css', '.js', '#'.
Href(prefix, rest, nonpage) == [prefix |-> prefix, rest |-> rest, nonpage |-> nonpage]
HomeBodies ==
    { <<>>,
      << Href("/", "about", FALSE) >>,
      << Href("/", "about", FALSE), Href(BaseUrl, "/blog", FALSE),
         Href("/", "files/report.pdf", TRUE), Href("https://other.test", "/x", FALSE),
         Href("", "#top", TRUE), Href("/", "about", FALSE) >> }
HomeResponses == {NetError, Status(500)} \cup {Ok(b) : b \in HomeBodies}

\* the set `links` built by the loop over soup.find_all('a', href=True)
HomeLinkSet(base_url, hrefs) ==
    { IF hrefs[i].prefix = "/" THEN urljoin(base_url, "/" \o hrefs[i].rest)
      ELSE hrefs[i].prefix \o hrefs[i].rest :
        i \in { j \in 1..Len(hrefs) :
                  /\ hrefs[j].prefix = "/" \/ hrefs[j].prefix = base_url
                  /\ ~hrefs[j].nonpage } }

\* the lists _get_homepage_links can return: list(links), in any order of the set
_get_homepage_links(base_url, resp) ==
    IF resp.err \/ resp.status # 200 THEN {<<>>}
    ELSE Orders(HomeLinkSet(base_url, resp.body))

\* ---- _get_common_pages ------------------------------------------------
common_paths ==
    << "/about", "/about-us", "/contact", "/contact-us", "/services",
       "/products", "/pricing", "/blog", "/news", "/support", "/help",
       "/privacy", "/terms", "/careers", "/team", "/company" >>
\* the paths the site may have; every other path answers 404.  A path the site
\* has answers 200; for those it lacks, a site either answers 404 or lets the
\* request fail (status 0: requests.head raised)
LivePaths == {common_paths[i] : i \in 1..Min(MaxLivePaths, Len(common_paths))}
HeadAnswers == [LivePaths -> {200, 404}] \cup [LivePaths -> {200, 0}]
HeadStatus(heads, path) == IF path \in DOMAIN heads THEN heads[path] ELSE 404

\* the events of one request: what the code sleeps before it (tenths of a
\* second), then the request with the status it got (0: it raised)
Sleep(tenths) == [method |-> "sleep", url |-> "", status |-> tenths]
Req(method, u, status) == [method |-> method, url |-> u, status |-> status]

RECURSIVE CommonFrom(_, _, _)
\* the loop over common_paths from position i: a path is kept when its HEAD
\* request answered 200, skipped when it answered otherwise or raised
CommonFrom(base_url, heads, i) ==
    IF i > Len(common_paths) THEN <<>>
    ELSE (IF HeadStatus(heads, common_paths[i]) = 200
          THEN <<urljoin(base_url, common_paths[i])>> ELSE <<>>)
         \o CommonFrom(base_url, heads, i + 1)
_get_common_pages(base_url, heads) == CommonFrom(base_url, heads, 1)

RECURSIVE CommonEventsFrom(_, _, _)
\* what that loop sleeps and requests
CommonEventsFrom(base_url, heads, i) ==
    IF i > Len(common_paths) THEN <<>>
    ELSE << Sleep(5),
            Req("HEAD", urljoin(base_url, common_paths[i]), HeadStatus(heads, common_paths[i])) >>
         \o CommonEventsFrom(base_url, heads, i + 1)

(***************************************************************************)
(* _scan_page: the rules over a parsed page                                *)
(***************************************************************************)
\* the value of tag.get(attr) for an attribute the tag does not have (None)
NoAttr == "<no attribute>"
\* Python truthiness of tag.get(attr): neither None nor the empty string
Truthy(v) == v # NoAttr /\ v # ""

\* A parsed page: imgs, the alt of each <img>; h1, the number of <h1>;
\* links, per <a> its href, its stripped text and its aria-label; inputs, per
\* <input> its type, aria-label and id; labels, the `for` of each <label>.
Doc(imgs, h1, links, inputs, labels) ==
    [imgs |-> imgs, h1 |-> h1, links |-> links, inputs |-> inputs, labels |-> labels]
Link(href, text, aria) == [href |-> href, text |-> text, aria |-> aria]
Input(type, aria, id) == [type |-> type, aria |-> aria, id |-> id]

Violation(type, severity, element, description, page) ==
    [type |-> type, severity |-> severity, element |-> element,
     description |-> description, page |-> page]

LabelledInputTypes == {"text", "email", "password", "tel"}

\* the violations of a page whose GET answered 200 with document doc: one per
\* matching element of each rule, the rules in the order of the code
PageViolations(page, doc) ==
    LET AltMissing(alt) == ~Truthy(alt)
        Nameless(a) == Truthy(a.href) /\ a.text = "" /\ ~Truthy(a.aria)
        \* soup.find('label', {'for': id}): a label whose `for` equals the id;
        \* for an input without id, a label without `for`
        Unlabelled(i) == /\ i.type \in LabelledInputTypes
                         /\ ~Truthy(i.aria)
                         /\ ~\E k \in 1..Len(doc.labels) : doc.labels[k] = i.id
        Times(n, v) == [k \in 1..n |-> v]
    IN  Times(Len(SelectSeq(doc.imgs, AltMissing)),
              Violation("missing_alt_text", "serious", "img", "Image missing alt text", page))
        \o (IF doc.h1 = 0
            THEN <<Violation("missing_h1", "moderate", "h1", "Page missing H1 heading", page)>>
            ELSE <<>>)
        \o Times(Len(SelectSeq(doc.links, Nameless)),
                 Violation("link_without_name", "serious", "a",
                           "Link without accessible name", page))
        \o Times(Len(SelectSeq(doc.inputs, Unlabelled)),
                 Violation("unlabeled_input", "serious", "input",
                           "Form input without label", page))

\* _scan_page(url) given the response to its GET: [] on a non-200 status and
\* on any exception, the page's violations otherwise
\* _scan_page reporting a page it could not fetch as a violation of that page
_scan_page_reporting_failure(page, resp) ==
    IF resp.err \/ resp.status # 200
    THEN <<Violation("fetch_failed", "serious", "html", "Page could not be fetched", page)>>
    ELSE PageViolations(page, resp.body)

_scan_page(page, resp) ==
    IF resp.err \/ resp.status # 200 THEN <<>> ELSE PageViolations(page, resp.body)

\* the pages a scanned site serves
DocClean ==
    Doc(<<"Company logo">>, 1, <<Link("/about", "About us", NoAttr)>>,
        <<Input("email", NoAttr, "mail")>>, <<"mail">>)
DocOneImage == Doc(<<NoAttr>>, 1, <<>>, <<>>, <<>>)
DocMessy ==
    Doc(<<NoAttr, "", "Photo">>, 0, <<Link("/x", "", NoAttr), Link("/y", "", "Go")>>,
        <<Input("text", NoAttr, NoAttr), Input("submit", NoAttr, NoAttr)>>, <<"other">>)
\* a gallery of ManyImages images, none with an alt attribute
ManyImages == 51
DocGallery == Doc([k \in 1..ManyImages |-> NoAttr], 1, <<>>, <<>>, <<>>)
\* what a page of a site can answer: a site whose server drops connections and
\* has plain pages, and a site with missing pages and image pages
PageResponses ==
    { {NetError, Ok(DocClean), Ok(DocMessy)},
      {Status(404), Ok(DocOneImage), Ok(DocGallery)} }

(***************************************************************************)
(* scan_website: aggregation                                               *)
(***************************************************************************)
Severities == {"critical", "serious", "moderate", "minor"}
ZeroCategories == [s \in Severities |-> 0]

\* dict.get(key, default) on a record
Get(d, key, default) == IF key \in DOMAIN d THEN d[key] ELSE default

\* the loop of _categorize_violations: each violation adds one to the count of
\* its severity ('moderate' when it has none) if that severity is a key of categories
Categorize(violations, categories) ==
    [severity \in DOMAIN categories |->
        categories[severity]
        + Cardinality({i \in 1..Len(violations) :
                         Get(violations[i], "severity", "moderate") = severity})]
\* categories that miss the moderate violations
_categorize_violations_without_moderate(violations) ==
    [Categorize(violations, ZeroCategories) EXCEPT !["moderate"] = 0]
_categorize_violations(violations) == Categorize(violations, ZeroCategories)

RECURSIVE SampleFrom(_, _)
SampleFrom(violations, sample_pages) ==
    IF sample_pages = <<>> THEN <<>>
    ELSE LET OnPage(v) == Get(v, "page", NoAttr) = Head(sample_pages)
         IN  SliceTo(SelectSeq(violations, OnPage), 2)
             \o SampleFrom(violations, Tail(sample_pages))
\* a sample with every violation of the sample pages
_create_sample_violations_uncut(violations, sample_pages) ==
    SelectSeq(violations, LAMBDA v : Get(v, "page", NoAttr) \in Range(SliceTo(sample_pages, 3)))
_create_sample_violations(violations, sample_pages) ==
    SampleFrom(violations, SliceTo(sample_pages, 3))

\* the score without its clamp at 0
compliance_score_unclamped(total_violations) == 100 - (total_violations * 2)
compliance_score(total_violations) == Max(0, 100 - (total_violations * 2))

\* the dict scan_website returns
ScanResult(pgs, violations, with_violations) ==
    [pages_scanned |-> Len(pgs),
     total_violations |-> Len(violations),
     compliance_score |-> compliance_score(Len(violations)),
     pages_with_violations |-> with_violations,
     violations_by_severity |-> _categorize_violations(violations),
     sample_violations |-> _create_sample_violations(violations, SliceTo(pgs, 3)),
     all_violations |-> violations]

NoResult == [status |-> "none"]
Raised == [status |-> "raised"]
Returned(r) == [status |-> "returned", value |-> r]

(***************************************************************************)
(* scan_website(url, max_pages) step by step: one action per network       *)
(* exchange of _discover_pages and of the page loop                        *)
(***************************************************************************)
MaxPagesArgs == {PyInt(n) : n \in -1..MaxPagesArg} \cup {PyStr("10"), PyNone}

ScanIdle ==
    /\ pc = "idle"
    /\ url = ""
    /\ max_pages = PyNone
    /\ pages = {}
    /\ sitemap_urls = <<>>
    /\ homepage_links = <<>>
    /\ common_pages = <<>>
    /\ discovered = <<>>
    /\ idx = 0
    /\ all_violations = <<>>
    /\ pages_with_violations = 0
    /\ net = <<>>
    /\ scan_result = NoResult

NoReply == [code |-> 0]
\* current_user.subscription of a user without a Subscription row: None
NoSubscription == [plan |-> "", status |-> "none"]
\* neither backend has been started
BackendsIdle ==
    /\ users_db = <<>>
    /\ websites_db = <<>>
    /\ scans_db = <<>>
    /\ user_counter = 1
    /\ website_counter = 1
    /\ scan_counter = 1
    /\ served = 0
    /\ website_rows = {}
    /\ subscription = NoSubscription
    /\ reply = NoReply

\* scan_website is entered: _discover_pages starts with pages = set([base_url])
Enter(u, mp) ==
    /\ pc' = "sitemap"
    /\ url' = u
    /\ max_pages' = mp
    /\ pages' = {u}
    /\ UNCHANGED <<sitemap_urls, homepage_links, common_pages, discovered, idx,
                   all_violations, pages_with_violations, net, scan_result>>

\* a caller of the service starts a scan
ScanStart ==
    /\ pc = "idle"
    /\ \E u \in ScanUrls, mp \in MaxPagesArgs : Enter(u, mp)
    /\ UNCHANGED <<envVars, riskVars, routeVars, backendVars>>

\* _discover_pages' except branch: return [base_url]
DiscoveryFails ==
    /\ discovered' = <<url>>
    /\ idx' = 1
    /\ pc' = "loop"

\* the test `len(pages) < max_pages` on the set pgs decides where discovery goes
\* next; once it is false the later strategies are skipped
\* discovery stopping at the first strategy that adds no URL
AfterStrategy_stopping_when_empty(pgs, next) ==
    IF LessRaises(max_pages) THEN DiscoveryFails
    ELSE /\ pc' = IF Cardinality(pgs) < max_pages[2] /\ pgs # pages THEN next ELSE "list"
         /\ UNCHANGED <<discovered, idx>>

AfterStrategy(pgs, next) ==
    IF LessRaises(max_pages) THEN DiscoveryFails
    ELSE /\ pc' = IF Cardinality(pgs) < max_pages[2] THEN next ELSE "list"
         /\ UNCHANGED <<discovered, idx>>

\* sitemap_urls = self._get_sitemap_urls(base_url); pages.update(sitemap_urls[:max_pages])
GetSitemapUrls ==
    /\ pc = "sitemap"
    /\ \E resp \in site.sitemap :
          LET urls == _get_sitemap_urls(resp) IN
          /\ sitemap_urls' = urls
          /\ net' = net \o <<Sleep(10), Req("GET", urljoin(url, "/sitemap.xml"), resp.status)>>
          /\ IF urls # <<>> /\ SliceRaises(max_pages)
             THEN DiscoveryFails /\ UNCHANGED pages
             ELSE LET pgs == IF urls # <<>> THEN pages \cup Range(PySlice(urls, max_pages))
                             ELSE pages
                  IN  pages' = pgs /\ AfterStrategy(pgs, "homepage")
    /\ UNCHANGED <<url, max_pages, homepage_links, common_pages, all_violations,
                   pages_with_violations, scan_result>>
    /\ UNCHANGED <<envVars, riskVars, routeVars, backendVars>>

\* homepage_links = self._get_homepage_links(base_url);
\* pages.update(homepage_links[:max_pages - len(pages)])
GetHomepageLinks ==
    /\ pc = "homepage"
    /\ \E resp \in site.home : \E links \in _get_homepage_links(url, resp) :
          LET pgs == IF links # <<>>
                     THEN pages \cup Range(SliceTo(links, max_pages[2] - Cardinality(pages)))
                     ELSE pages
          IN  /\ homepage_links' = links
              /\ net' = net \o <<Sleep(10), Req("GET", url, resp.status)>>
              /\ pages' = pgs
              /\ AfterStrategy(pgs, "common")
    /\ UNCHANGED <<url, max_pages, sitemap_urls, common_pages, all_violations,
                   pages_with_violations, scan_result>>
    /\ UNCHANGED <<envVars, riskVars, routeVars, backendVars>>

\* common_pages = self._get_common_pages(base_url);
\* pages.update(common_pages[:max_pages - len(pages)])
GetCommonPages ==
    /\ pc = "common"
    /\ \E heads \in site.heads :
          LET found == _get_common_pages(url, heads) IN
          /\ common_pages' = found
          /\ net' = net \o CommonEventsFrom(url, heads, 1)
          /\ pages' = pages \cup Range(SliceTo(found, max_pages[2] - Cardinality(pages)))
    /\ pc' = "list"
    /\ UNCHANGED <<url, max_pages, sitemap_urls, homepage_links, discovered, idx,
                   all_violations, pages_with_violations, scan_result>>
    /\ UNCHANGED <<envVars, riskVars, routeVars, backendVars>>

\* the lists list(pages) can be, not cut to max_pages
DiscoveredListsUncut(pgs, mp) == Orders(pgs)
\* the lists list(pages)[:max_pages] can be
DiscoveredLists(pgs, mp) == {SliceTo(order, mp) : order \in Orders(pgs)}

\* discovered_pages = list(pages)[:max_pages]; return discovered_pages
ListPages ==
    /\ pc = "list"
    /\ discovered' \in DiscoveredLists(pages, max_pages[2])
    /\ idx' = 1
    /\ pc' = "loop"
    /\ UNCHANGED <<url, max_pages, pages, sitemap_urls, homepage_links, common_pages,
                   all_violations, pages_with_violations, net, scan_result>>
    /\ UNCHANGED <<envVars, riskVars, routeVars, backendVars>>

\* the list the for loop runs over: pages[:max_pages]
\* a loop that scans the first discovered page only
LoopPages_first_only == SliceTo(discovered, 1)

LoopPages == PySlice(discovered, max_pages)

\* pages[:max_pages] raises TypeError: scan_website logs and re-raises
ScanRaises ==
    /\ pc = "loop"
    /\ SliceRaises(max_pages)
    /\ pc' = "raised"
    /\ scan_result' = Raised
    /\ UNCHANGED <<url, max_pages, pages, sitemap_urls, homepage_links, common_pages,
                   discovered, idx, all_violations, pages_with_violations, net>>
    /\ UNCHANGED <<envVars, riskVars, routeVars, backendVars>>

\* one iteration of the loop: violations = self._scan_page(page_url)
ScanPage ==
    /\ pc = "loop"
    /\ ~SliceRaises(max_pages)
    /\ idx <= Len(LoopPages)
    /\ \E resp \in site.page :
          LET page == LoopPages[idx]
              violations == _scan_page(page, resp)
          IN  /\ net' = Append(net, Req("GET", page, resp.status))
              /\ IF violations # <<>>
                 THEN /\ all_violations' = all_violations \o violations
                      /\ pages_with_violations' = pages_with_violations + 1
                 ELSE UNCHANGED <<all_violations, pages_with_violations>>
    /\ idx' = idx + 1
    /\ UNCHANGED <<pc, url, max_pages, pages, sitemap_urls, homepage_links, common_pages,
                   discovered, scan_result>>
    /\ UNCHANGED <<envVars, riskVars, routeVars, backendVars>>

\* after the loop: the totals, the categories, the sample, and the return
ScanFinish ==
    /\ pc = "loop"
    /\ ~SliceRaises(max_pages)
    /\ idx > Len(LoopPages)
    /\ scan_result' = Returned(ScanResult(discovered, all_violations, pages_with_violations))
    /\ pc' = "done"
    /\ UNCHANGED <<url, max_pages, pages, sitemap_urls, homepage_links, common_pages,
                   discovered, idx, all_violations, pages_with_violations, net>>
    /\ UNCHANGED <<envVars, riskVars, routeVars, backendVars>>

ScanSteps ==
    \/ GetSitemapUrls
    \/ GetHomepageLinks
    \/ GetCommonPages
    \/ ListPages
    \/ ScanRaises
    \/ ScanPage
    \/ ScanFinish

NoRequest == [endpoint |-> "none"]
NoResponse == [status |-> "none"]
NoCall == [fn |-> "none", args |-> <<>>]

\* the sites: every answer of the three discovery strategies, and one of the
\* families of page answers
ScanSites ==
    { [sitemap |-> SitemapResponses, home |-> HomeResponses, heads |-> HeadAnswers,
       page |-> p] : p \in PageResponses }

Init ==
    /\ ScanIdle
    /\ site \in ScanSites
    /\ risk_in = NoCall
    /\ risk_out = NoResult
    /\ request = NoRequest
    /\ response = NoResponse
    /\ BackendsIdle

Next == ScanStart \/ ScanSteps

\* the scanner service called directly
Spec == Init /\ [][Next]_vars

(***************************************************************************)
(* LawsuitCalculator                                                       *)
(***************************************************************************)
VIOLATION_COSTS ==
    [critical |-> [min |-> 8000, max |-> 25000],
     serious |-> [min |-> 3000, max |-> 12000],
     moderate |-> [min |-> 1000, max |-> 5000],
     minor |-> [min |-> 500, max |-> 2000]]

\* '$' followed by the amount with thousands separators and no decimals
Dollars(amount) == <<"$", amount>>

\* twice the multiplier with the discount on the wrong side: half for the first
\* 10 violations, full for those beyond
Multiplier2_discount_swapped(count) == Min(count, 10) + 2 * Max(0, count - 10)

\* twice the multiplier min(count, 10) + max(0, count - 10) * 0.5
Multiplier2(count) == 2 * Min(count, 10) + Max(0, count - 10)

RECURSIVE SumOver(_, _, _)
\* the sum over the keys of violations_by_severity of cost[bound] * multiplier,
\* for the keys that are cost tiers with a count above zero
SumOver(keys, counts, bound) ==
    IF keys = {} THEN 0
    ELSE LET severity == CHOOSE k \in keys : TRUE
             count == counts[severity]
         IN  (IF severity \in DOMAIN VIOLATION_COSTS /\ count > 0
              THEN (VIOLATION_COSTS[severity][bound] * Multiplier2(count)) \div 2
              ELSE 0)
             + SumOver(keys \ {severity}, counts, bound)

base_cost == 15000

\* the sums of the tiers alone, without the base cost
_calculate_financial_exposure_without_base_cost(violations_by_severity) ==
    << SumOver(DOMAIN violations_by_severity, violations_by_severity, "min"),
       SumOver(DOMAIN violations_by_severity, violations_by_severity, "max") >>

\* (min_total, max_total)
_calculate_financial_exposure(violations_by_severity) ==
    << SumOver(DOMAIN violations_by_severity, violations_by_severity, "min") + base_cost,
       SumOver(DOMAIN violations_by_severity, violations_by_severity, "max") + base_cost >>

\* Python's round() of tenths/10: to the nearest integer, a tie to the even one
RoundTenths(tenths) ==
    LET q == tenths \div 10
        r == tenths % 10
    IN  IF r < 5 THEN q
        ELSE IF r > 5 THEN q + 1
        ELSE IF q % 2 = 0 THEN q ELSE q + 1

industry_baseline == 15

\* the probability formula without the size factor min(pages_scanned / 10, 3)
_calculate_lawsuit_probability_without_size_factor(total_violations, pages_scanned) ==
    IF total_violations = 0 THEN 5
    ELSE Min(Min(total_violations * 2, 70) + industry_baseline, 95)

\* the probability formula with the size factor subtracted
_calculate_lawsuit_probability_size_factor_subtracted(total_violations, pages_scanned) ==
    IF total_violations = 0 THEN 5
    ELSE RoundTenths(Min(10 * Min(total_violations * 2, 70) - Min(pages_scanned, 30)
                           + 10 * industry_baseline, 950))

_calculate_lawsuit_probability(total_violations, pages_scanned) ==
    IF total_violations = 0 THEN 5
    ELSE LET base_probability == Min(total_violations * 2, 70)
             size_factor10 == Min(pages_scanned, 30)      \* ten times min(pages_scanned / 10, 3)
             probability10 == Min(10 * base_probability + size_factor10
                                    + 10 * industry_baseline, 950)
         IN  RoundTenths(probability10)

\* the tiers with their thresholds included (>= where the code has >)
_determine_urgency_level_inclusive(total_violations, lawsuit_probability) ==
    IF total_violations >= 50 \/ lawsuit_probability >= 80 THEN "CRITICAL"
    ELSE IF total_violations >= 20 \/ lawsuit_probability >= 60 THEN "HIGH"
    ELSE IF total_violations >= 5 \/ lawsuit_probability >= 30 THEN "MEDIUM"
    ELSE "LOW"

_determine_urgency_level(total_violations, lawsuit_probability) ==
    IF total_violations > 50 \/ lawsuit_probability > 80 THEN "CRITICAL"
    ELSE IF total_violations > 20 \/ lawsuit_probability > 60 THEN "HIGH"
    ELSE IF total_violations > 5 \/ lawsuit_probability > 30 THEN "MEDIUM"
    ELSE "LOW"

_get_headline_message(max_exposure, probability, urgency) ==
    IF urgency = "CRITICAL"
    THEN <<"URGENT: Your website could face ", Dollars(max_exposure), " in lawsuit damages">>
    ELSE IF urgency = "HIGH"
    THEN <<"WARNING: ", Dollars(max_exposure), " lawsuit exposure detected">>
    ELSE IF urgency = "MEDIUM"
    THEN <<"RISK ALERT: Potential ", Dollars(max_exposure), " in accessibility lawsuit costs">>
    ELSE <<"Protect your business from ", Dollars(max_exposure), " in potential lawsuit costs">>

_get_subheadline_message(min_exposure, max_exposure) ==
    <<"Your accessibility violations could result in ", Dollars(min_exposure), " to ",
      Dollars(max_exposure), " in legal settlements and fees">>

_get_cta_message(urgency) ==
    IF urgency \in {"CRITICAL", "HIGH"}
    THEN "Fix these violations immediately to protect your business"
    ELSE "Start fixing violations now to avoid future lawsuits"

_get_urgency_message(urgency) ==
    LET messages ==
          [CRITICAL |-> "Your website is at EXTREME risk. Immediate action required.",
           HIGH |-> "High lawsuit risk detected. Take action within 30 days.",
           MEDIUM |-> "Moderate risk level. Address violations within 90 days.",
           LOW |-> "Low current risk, but prevention is always better than litigation."]
    IN  Get(messages, urgency, messages["LOW"])

_generate_fear_messaging(min_exposure, max_exposure, probability, urgency) ==
    [headline |-> _get_headline_message(max_exposure, probability, urgency),
     subheadline |-> _get_subheadline_message(min_exposure, max_exposure),
     call_to_action |-> _get_cta_message(urgency),
     urgency_message |-> _get_urgency_message(urgency),
     social_proof |-> "Join 1000+ businesses protecting themselves from accessibility lawsuits"]

_get_risk_level(probability) ==
    IF probability >= 80 THEN "EXTREME"
    ELSE IF probability >= 60 THEN "HIGH"
    ELSE IF probability >= 30 THEN "MODERATE"
    ELSE "LOW"

_get_probability_description(probability) ==
    IF probability >= 80
    THEN "Your website is extremely likely to face accessibility litigation"
    ELSE IF probability >= 60 THEN "High probability of accessibility-related legal action"
    ELSE IF probability >= 30 THEN "Moderate risk of accessibility lawsuits"
    ELSE "Lower risk, but accessibility compliance still recommended"

_get_recommended_action(urgency) ==
    LET actions ==
          [CRITICAL |-> "Immediate remediation required - contact legal counsel",
           HIGH |-> "Begin accessibility fixes within 30 days",
           MEDIUM |-> "Plan accessibility improvements within 90 days",
           LOW |-> "Consider proactive accessibility improvements"]
    IN  Get(actions, urgency, actions["LOW"])

_get_timeline(urgency) ==
    LET timelines ==
          [CRITICAL |-> "7-14 days", HIGH |-> "30 days", MEDIUM |-> "90 days",
           LOW |-> "6 months"]
    IN  Get(timelines, urgency, timelines["LOW"])

_get_risk_category(total_violations) ==
    IF total_violations = 0 THEN "Compliant"
    ELSE IF total_violations < 5 THEN "Minor Issues"
    ELSE IF total_violations < 20 THEN "Moderate Risk"
    ELSE IF total_violations < 50 THEN "High Risk"
    ELSE "Critical Risk"

LineItem(amount, description) ==
    [amount |-> amount, formatted |-> Dollars(amount), description |-> description]

settlement_cap == 75000

\* the breakdown without the cap on the settlement amount
_calculate_settlement_breakdown_uncapped(violations_by_severity, total_violations) ==
    LET settlement_amount ==
            IF total_violations < 10 THEN 8000 + (total_violations * 1000)
            ELSE IF total_violations < 50 THEN 15000 + (total_violations * 500)
            ELSE IF total_violations < 100 THEN 25000 + (total_violations * 300)
            ELSE 45000 + (total_violations * 200)
        attorney_fees == (settlement_amount * 25) \div 10
        compliance_costs == (settlement_amount * 15) \div 10
        total_exposure == settlement_amount + attorney_fees + compliance_costs
    IN  [settlement_amount |->
            LineItem(settlement_amount, "Likely settlement amount for similar businesses"),
         attorney_fees |-> LineItem(attorney_fees, "Legal fees and court costs"),
         compliance_costs |->
            LineItem(compliance_costs, "Website remediation and ongoing compliance"),
         total_exposure |-> LineItem(total_exposure, "Total potential cost exposure")]

_calculate_settlement_breakdown(violations_by_severity, total_violations) ==
    LET tiered == IF total_violations < 10 THEN 8000 + (total_violations * 1000)
                  ELSE IF total_violations < 50 THEN 15000 + (total_violations * 500)
                  ELSE IF total_violations < 100 THEN 25000 + (total_violations * 300)
                  ELSE 45000 + (total_violations * 200)
        settlement_amount == Min(tiered, settlement_cap)
        attorney_fees == (settlement_amount * 25) \div 10
        compliance_costs == (settlement_amount * 15) \div 10
        total_exposure == settlement_amount + attorney_fees + compliance_costs
    IN  [settlement_amount |->
            LineItem(settlement_amount, "Likely settlement amount for similar businesses"),
         attorney_fees |-> LineItem(attorney_fees, "Legal fees and court costs"),
         compliance_costs |->
            LineItem(compliance_costs, "Website remediation and ongoing compliance"),
         total_exposure |-> LineItem(total_exposure, "Total potential cost exposure")]

\* the examples are fixed text; only whether the list is the class's or empty matters
LAWSUIT_EXAMPLES ==
    <<"Small Restaurant Chain", "E-commerce Store", "Target Corporation", "Netflix">>

get_fallback_risk ==
    [financial_exposure |->
        [min_amount |-> 25000, max_amount |-> 85000,
         formatted_range |-> <<Dollars(25000), " - ", Dollars(85000)>>],
     settlement_breakdown |->
        PyDict([settlement_amount |->
                   LineItem(25000, "Likely settlement amount for similar businesses"),
                attorney_fees |-> LineItem(62500, "Legal fees and court costs"),
                compliance_costs |->
                   LineItem(37500, "Website remediation and ongoing compliance"),
                total_exposure |-> LineItem(125000, "Total potential cost exposure")]),
     lawsuit_probability |->
        [percentage |-> 65, risk_level |-> "HIGH",
         description |-> "High probability of accessibility-related legal action"],
     urgency |->
        [level |-> "HIGH", recommended_action |-> "Begin accessibility fixes within 30 days",
         timeline |-> "30 days"],
     messaging |->
        [headline |-> <<"WARNING: ", Dollars(125000), " lawsuit exposure detected">>,
         subheadline |-> <<"Your accessibility violations could result in ", Dollars(25000),
                           " to ", Dollars(125000), " in legal costs">>,
         call_to_action |-> "Fix these violations immediately to protect your business",
         urgency_message |-> "High lawsuit risk detected. Take action within 30 days.",
         social_proof |->
            "Join 1000+ businesses protecting themselves from accessibility lawsuits"],
     lawsuit_examples |-> LAWSUIT_EXAMPLES,
     compliance_status |->
        [ada_compliant |-> FALSE, wcag_level |-> "Fails", risk_category |-> "High Risk"]]

_get_clean_website_results ==
    [clean_website |-> TRUE,
     financial_exposure |->
        [min_amount |-> 0, max_amount |-> 0, formatted_range |-> <<Dollars(0)>>],
     settlement_breakdown |-> PyNone,
     lawsuit_probability |->
        [percentage |-> 0, risk_level |-> "NONE",
         description |-> "No accessibility violations detected"],
     urgency |->
        [level |-> "NONE",
         recommended_action |-> "Continue monitoring for accessibility compliance",
         timeline |-> "Ongoing"],
     messaging |->
        [headline |-> <<"Excellent! No accessibility violations found">>,
         subheadline |-> <<"Your website appears to be accessibility compliant">>,
         call_to_action |->
            "Keep up the great work! Consider regular monitoring to maintain compliance.",
         urgency_message |-> "Your website is currently accessibility compliant.",
         social_proof |-> "Join 1000+ businesses maintaining accessibility compliance"],
     lawsuit_examples |-> <<>>,
     compliance_status |->
        [ada_compliant |-> TRUE, wcag_level |-> "AA", risk_category |-> "No Risk"]]

\* the assessment calculate_risk builds once its arguments are numbers
Assessment(violations_by_severity, total_violations, pages_scanned) ==
    LET exposure == _calculate_financial_exposure(violations_by_severity)
        min_exposure == exposure[1]
        max_exposure == exposure[2]
        lawsuit_probability == _calculate_lawsuit_probability(total_violations, pages_scanned)
        urgency_level == _determine_urgency_level(total_violations, lawsuit_probability)
    IN  [financial_exposure |->
            [min_amount |-> min_exposure, max_amount |-> max_exposure,
             formatted_range |-> <<Dollars(min_exposure), " - ", Dollars(max_exposure)>>],
         settlement_breakdown |->
            PyDict(_calculate_settlement_breakdown(violations_by_severity, total_violations)),
         lawsuit_probability |->
            [percentage |-> lawsuit_probability,
             risk_level |-> _get_risk_level(lawsuit_probability),
             description |-> _get_probability_description(lawsuit_probability)],
         urgency |->
            [level |-> urgency_level,
             recommended_action |-> _get_recommended_action(urgency_level),
             timeline |-> _get_timeline(urgency_level)],
         messaging |-> _generate_fear_messaging(min_exposure, max_exposure,
                                                lawsuit_probability, urgency_level),
         lawsuit_examples |-> LAWSUIT_EXAMPLES,
         compliance_status |->
            [ada_compliant |-> total_violations = 0,
             wcag_level |-> IF total_violations < 5 THEN "AA" ELSE "Fails",
             risk_category |-> _get_risk_category(total_violations)]]

\* _calculate_financial_exposure raises: violations_by_severity has no items(),
\* or `count > 0` compares a non-number, which is evaluated for the cost tiers only
ExposureRaises(vbs) ==
    \/ ~IsDict(vbs)
    \/ \E severity \in DOMAIN vbs[2] :
          severity \in DOMAIN VIOLATION_COSTS /\ ~IsInt(vbs[2][severity])

\* the counts of a violations_by_severity mapping as integers
Counts(vbs) == [severity \in DOMAIN vbs[2] |->
                  IF IsInt(vbs[2][severity]) THEN vbs[2][severity][2] ELSE 0]

\* calculate_risk without its zero-violations branch: the general formulas are
\* applied to a scan result that has no violations
calculate_risk_without_clean_branch(scan_results) ==
    IF ~IsDict(scan_results) THEN get_fallback_risk
    ELSE LET violations_by_severity == Get(scan_results[2], "violations_by_severity", PyDict(<<>>))
             total_violations == Get(scan_results[2], "total_violations", PyInt(0))
             pages_scanned == Get(scan_results[2], "pages_scanned", PyInt(1))
         IN  IF \/ ExposureRaises(violations_by_severity)
                \/ ~IsInt(total_violations)
                \/ ~IsInt(pages_scanned)
             THEN get_fallback_risk
             ELSE Assessment(Counts(violations_by_severity), total_violations[2],
                             pages_scanned[2])

\* calculate_risk(scan_results), scan_results any Python value.  Every
\* exception inside the try block returns get_fallback_risk().
calculate_risk(scan_results) ==
    IF ~IsDict(scan_results) THEN get_fallback_risk         \* no .get: AttributeError
    ELSE LET violations_by_severity == Get(scan_results[2], "violations_by_severity", PyDict(<<>>))
             total_violations == Get(scan_results[2], "total_violations", PyInt(0))
             pages_scanned == Get(scan_results[2], "pages_scanned", PyInt(1))
         IN  IF IsInt(total_violations) /\ total_violations[2] = 0
             THEN _get_clean_website_results
             ELSE IF \/ ExposureRaises(violations_by_severity)
                     \/ ~IsInt(total_violations)          \* min(total_violations * 2, 70)
                     \/ ~IsInt(pages_scanned)             \* pages_scanned / 10
             THEN get_fallback_risk
             ELSE Assessment(Counts(violations_by_severity), total_violations[2],
                             pages_scanned[2])

(***************************************************************************)
(* Calls of the calculator, their arguments drawn from bounded sets        *)
(***************************************************************************)
MaxViolations == 61         \* the largest total_violations of a drawn scan result
MaxPagesScanned == 31       \* the largest pages_scanned of a drawn scan result
MaxProbability == 96        \* the largest probability handed to _determine_urgency_level
MaxSettlementTotal == 151   \* the largest total_violations handed to _calculate_settlement_breakdown
MaxCount == 41              \* the largest count of one severity handed to _calculate_financial_exposure

PyCounts(critical, serious, moderate, minor) ==
    PyDict([critical |-> PyInt(critical), serious |-> PyInt(serious),
            moderate |-> PyInt(moderate), minor |-> PyInt(minor)])
SeverityMaps == {PyCounts(0, 0, 0, 0), PyCounts(0, 1, 0, 0), PyCounts(2, 12, 3, 1)}

PyScanResult(vbs, tv, ps) ==
    [violations_by_severity |-> vbs, total_violations |-> tv, pages_scanned |-> ps]

WellFormedInputs ==
    { PyDict(PyScanResult(vbs, PyInt(tv), PyInt(ps))) :
        vbs \in SeverityMaps, tv \in 0..MaxViolations, ps \in 0..MaxPagesScanned }

\* a scan result of 3 violations on 2 pages, the base of the malformed inputs
SampleFields == PyScanResult(PyCounts(0, 2, 1, 0), PyInt(3), PyInt(2))
Restrict(f, keys) == [k \in keys |-> f[k]]

MissingFieldInputs ==
    { PyDict(Restrict(SampleFields, keys)) : keys \in SUBSET DOMAIN SampleFields }

NotMappings == {PyNone, PyList(<<>>), PyStr("scan"), PyInt(7)}
NotNumbers == {PyNone, PyStr("3"), PyList(<<>>)}

WrongTypeInputs ==
    { PyDict([SampleFields EXCEPT ![field] = v]) :
        field \in {"total_violations", "pages_scanned"}, v \in NotNumbers }
    \cup { PyDict([SampleFields EXCEPT !.violations_by_severity = v]) : v \in NotMappings }
    \cup { PyDict([SampleFields EXCEPT !.violations_by_severity =
                        PyDict([SampleFields.violations_by_severity[2]
                                   EXCEPT ![severity] = v])]) :
             severity \in Severities, v \in NotNumbers }
    \cup { PyDict([SampleFields EXCEPT !.violations_by_severity =
                        PyDict([serious |-> PyInt(2), medium |-> v])]) : v \in NotNumbers }
    \cup { PyDict([SampleFields EXCEPT !.total_violations = PyInt(0),
                                       !.violations_by_severity = v]) : v \in NotMappings }

RiskInputs == WellFormedInputs \cup MissingFieldInputs \cup NotMappings \cup WrongTypeInputs

\* the mappings handed to _calculate_financial_exposure: one severity alone
\* with every count, the four severities with few, some and many violations
\* each, and mappings with a severity that is no cost tier
ExposureMaps ==
    { [severity \in {tier} |-> count] : tier \in Severities, count \in 0..MaxCount }
    \cup { [critical |-> a, serious |-> b, moderate |-> c, minor |-> d] :
              a \in {0, 3, 12}, b \in {0, 3, 12}, c \in {0, 3, 12}, d \in {0, 3, 12} }
    \cup { <<>>, [unknown |-> 5], [serious |-> 12, unknown |-> 5] }

Call(fn, args) == [fn |-> fn, args |-> args]
RiskCalls ==
    { Call("calculate_risk", <<scan_results>>) : scan_results \in RiskInputs }
    \cup { Call("_determine_urgency_level", <<tv, p>>) :
             tv \in 0..MaxViolations, p \in 0..MaxProbability }
    \cup { Call("_calculate_financial_exposure", <<vbs>>) : vbs \in ExposureMaps }
    \cup { Call("_calculate_settlement_breakdown", <<[serious |-> tv], tv>>) :
             tv \in 0..MaxSettlementTotal }

CallCalculateRisk ==
    /\ risk_out = NoResult
    /\ risk_in.fn = "calculate_risk"
    /\ risk_out' = Returned(calculate_risk(risk_in.args[1]))
    /\ UNCHANGED <<risk_in, scanVars, envVars, routeVars, backendVars>>

CallDetermineUrgency ==
    /\ risk_out = NoResult
    /\ risk_in.fn = "_determine_urgency_level"
    /\ risk_out' = Returned(_determine_urgency_level(risk_in.args[1], risk_in.args[2]))
    /\ UNCHANGED <<risk_in, scanVars, envVars, routeVars, backendVars>>

CallFinancialExposure ==
    /\ risk_out = NoResult
    /\ risk_in.fn = "_calculate_financial_exposure"
    /\ risk_out' = Returned(_calculate_financial_exposure(risk_in.args[1]))
    /\ UNCHANGED <<risk_in, scanVars, envVars, routeVars, backendVars>>

CallSettlementBreakdown ==
    /\ risk_out = NoResult
    /\ risk_in.fn = "_calculate_settlement_breakdown"
    /\ risk_out' = Returned(_calculate_settlement_breakdown(risk_in.args[1], risk_in.args[2]))
    /\ UNCHANGED <<risk_in, scanVars, envVars, routeVars, backendVars>>

InitRisk ==
    /\ ScanIdle
    /\ site \in ScanSites
    /\ risk_in \in RiskCalls
    /\ risk_out = NoResult
    /\ request = NoRequest
    /\ response = NoResponse
    /\ BackendsIdle

NextRisk ==
    \/ CallCalculateRisk
    \/ CallDetermineUrgency
    \/ CallFinancialExposure
    \/ CallSettlementBreakdown

\* the calculator called on drawn arguments
SpecRisk == InitRisk /\ [][NextRisk]_vars

(***************************************************************************)
(* Calls of _scan_page, the page and its answer drawn from bounded sets    *)
(***************************************************************************)
MaxImages == 3              \* the most <img> elements of a drawn page

\* the pages: per <img> no alt attribute, alt="" or a text; zero, one or two
\* <h1>; links with and without a name; <input> elements with the `for` of
\* the page's <label> elements
PageDocs ==
    LET AltValues == {NoAttr, "", "Photo"}
        LinkLists ==
            { <<>>,
              <<Link("/about", "About us", NoAttr)>>,
              <<Link("/x", "", NoAttr), Link("/y", "", "Go"), Link(NoAttr, "", NoAttr)>> }
        Forms ==
            { [inputs |-> <<>>, labels |-> <<>>],
              [inputs |-> <<Input("email", NoAttr, "mail")>>, labels |-> <<"mail">>],
              [inputs |-> <<Input("text", NoAttr, NoAttr), Input("submit", NoAttr, NoAttr),
                            Input("tel", "Phone", NoAttr)>>,
               labels |-> <<"other">>] }
    IN  { Doc(imgs, h1, links, form.inputs, form.labels) :
            imgs \in SeqsUpTo(AltValues, MaxImages), h1 \in 0..2, links \in LinkLists,
            form \in Forms }
PageCalls ==
    { Call("_scan_page", <<BaseUrl, resp>>) :
        resp \in {NetError, Status(404), Status(500)} \cup {Ok(doc) : doc \in PageDocs} }

CallScanPage ==
    /\ risk_out = NoResult
    /\ risk_in.fn = "_scan_page"
    /\ risk_out' = Returned(_scan_page(risk_in.args[1], risk_in.args[2]))
    /\ UNCHANGED <<risk_in, scanVars, envVars, routeVars, backendVars>>

MaxListed == 3              \* the most violations of a drawn list

\* lists of violations whose severity is one of the four levels, another word,
\* or missing
CategorizeCalls ==
    LET Severe(severity) == [type |-> "rule", severity |-> severity, page |-> BaseUrl]
        Drawn == {Severe(severity) : severity \in Severities \cup {"high"}}
                    \cup {[type |-> "rule", page |-> BaseUrl]}
    IN  { Call("_categorize_violations", <<violations>>) :
            violations \in SeqsUpTo(Drawn, MaxListed) }

CallCategorize ==
    /\ risk_out = NoResult
    /\ risk_in.fn = "_categorize_violations"
    /\ risk_out' = Returned(_categorize_violations(risk_in.args[1]))
    /\ UNCHANGED <<risk_in, scanVars, envVars, routeVars, backendVars>>

MaxSamplePages == 4         \* the most pages of a drawn discovered list
MaxPerPage == 3             \* the most violations of one of its pages

\* what the loop of scan_website leaves: the discovered list pgs, and per page
\* of it, in its order, the violations found on it (of the rules in their order)
LoopOutcomes ==
    LET PageAt(k) == IF k = 1 THEN BaseUrl ELSE urljoin(BaseUrl, common_paths[k - 1])
        Rules == <<"missing_alt_text", "missing_h1", "link_without_name", "unlabeled_input">>
        Found(page, n) ==
            [k \in 1..n |-> Violation(Rules[k], IF k = 2 THEN "moderate" ELSE "serious",
                                       "html", "Found by rule", page)]
        RECURSIVE Flat(_, _)
        Flat(counts, k) ==
            IF k > Len(counts) THEN <<>>
            ELSE Found(PageAt(k), counts[k]) \o Flat(counts, k + 1)
    IN  { Call("scan_website.results",
               << [k \in 1..Len(counts) |-> PageAt(k)], Flat(counts, 1),
                  Cardinality({k \in 1..Len(counts) : counts[k] > 0}) >>) :
            counts \in SeqsUpTo(0..MaxPerPage, MaxSamplePages) }

\* scan_website after its loop: the result it returns
CallScanResults ==
    /\ risk_out = NoResult
    /\ risk_in.fn = "scan_website.results"
    /\ risk_out' = Returned(ScanResult(risk_in.args[1], risk_in.args[2], risk_in.args[3]))
    /\ UNCHANGED <<risk_in, scanVars, envVars, routeVars, backendVars>>

InitPage ==
    /\ ScanIdle
    /\ site \in ScanSites
    /\ risk_in \in PageCalls \cup CategorizeCalls \cup LoopOutcomes
    /\ risk_out = NoResult
    /\ request = NoRequest
    /\ response = NoResponse
    /\ BackendsIdle

\* _scan_page called on drawn pages, _categorize_violations on drawn lists,
\* the results of scan_website built from drawn outcomes of its loop
SpecPage == InitPage /\ [][CallScanPage \/ CallCategorize \/ CallScanResults]_vars

(***************************************************************************)
(* routes/scanner.py: /scan and /scan/premium                              *)
(***************************************************************************)
\* random.randint(a, b): the model draws the two ends of the range
RandInt(a, b) == {a, b}

\* get_fallback_results(url): made-up figures
get_fallback_results(u) ==
    { [pages_scanned |-> pages_scanned,
       total_violations |-> serious_violations + moderate_violations,
       compliance_score |->
          Max(0, 100 - ((serious_violations * 3) + (moderate_violations * 1))),
       pages_with_violations |-> with_violations,
       violations_by_severity |->
          [critical |-> 0, serious |-> serious_violations,
           moderate |-> moderate_violations, minor |-> 0],
       sample_violations |->
          << Violation("missing_alt_text", "serious", "img", "Images missing alt text", u),
             Violation("missing_h1", "moderate", "h1", "Page missing H1 heading", u) >>] :
        serious_violations \in RandInt(10, 25), moderate_violations \in RandInt(3, 8),
        pages_scanned \in RandInt(15, 50), with_violations \in RandInt(8, 20) }

\* generate_remediation_guide(violations, website_url): the clean-website guide
\* for an empty list, a guide over the violations otherwise
generate_remediation_guide(violations, website_url) ==
    IF violations = <<>>
    THEN [guide |-> "clean_website", website_url |-> website_url, total_violations |-> 0]
    ELSE [guide |-> "fixes", website_url |-> website_url,
          total_violations |-> Len(violations)]

\* the three fields calculate_risk reads, as the Python values a scan result holds
AsPython(scan_results) ==
    PyDict(PyScanResult(
        PyDict([severity \in DOMAIN scan_results.violations_by_severity |->
                   PyInt(scan_results.violations_by_severity[severity])]),
        PyInt(scan_results.total_violations),
        PyInt(scan_results.pages_scanned)))

Absent == <<"absent">>
\* int(text) for the query-string values of the model; a ValueError for any other text
IntOfString == ("-1" :> -1) @@ ("0" :> 0) @@ ("1" :> 1) @@ ("2" :> 2) @@ ("51" :> 51)
default_max_pages == 50

\* url.startswith(('http://', 'https://'))
HasScheme(u) == u \in {"https://site.test", "http://site.test"}
NormalizeUrl(u) == IF HasScheme(u) THEN u ELSE "https://" \o u

RequestUrls == {"", "site.test", "https://site.test"}
JsonMaxPages ==
    {Absent, PyNone, PyInt(-1), PyInt(0), PyInt(1), PyInt(2), PyInt(51), PyStr("2")}
QueryMaxPages == {Absent, PyStr("0"), PyStr("2"), PyStr("51"), PyStr("many")}

Request(endpoint, method, u, mp) ==
    [endpoint |-> endpoint, method |-> method, url |-> u, max_pages |-> mp]
Requests ==
    { Request(e, "POST", u, mp) : e \in {"/scan", "/scan/premium"}, u \in RequestUrls,
                                  mp \in JsonMaxPages }
    \cup { Request("/scan", "GET", u, mp) : u \in RequestUrls, mp \in QueryMaxPages }

ErrorResponse(code, message) == [code |-> code, status |-> "error", error |-> message]

\* the handler up to its call of scanner_service.scan_website(url, max_pages):
\* parameters, validation, normalisation; an exception before the call is
\* answered by the handler's outer except clause
Receive(req, unavailable) ==
    /\ pc = "idle"
    /\ request = NoRequest
    /\ request' = req
    /\ IF req.method = "GET" /\ req.max_pages # Absent
          /\ req.max_pages[2] \notin DOMAIN IntOfString
       THEN \* int(request.args.get('max_pages', 50)) raises ValueError
            /\ response' = ErrorResponse(500, unavailable)
            /\ UNCHANGED scanVars
       ELSE IF req.url = ""
       THEN /\ response' = ErrorResponse(400, "URL parameter is required")
            /\ UNCHANGED scanVars
       ELSE /\ Enter(NormalizeUrl(req.url),
                     IF req.max_pages = Absent THEN PyInt(default_max_pages)
                     ELSE IF req.method = "GET" THEN PyInt(IntOfString[req.max_pages[2]])
                     ELSE req.max_pages)
            /\ UNCHANGED response
    /\ UNCHANGED <<envVars, riskVars, backendVars>>

\* scan_website() of /scan is entered
ReceiveScan ==
    \E req \in Requests :
        /\ req.endpoint = "/scan"
        /\ Receive(req, "Scan temporarily unavailable. Please try again in a moment.")

\* premium_scan() of /scan/premium is entered
ReceivePremium ==
    \E req \in Requests :
        /\ req.endpoint = "/scan/premium"
        /\ Receive(req, "Premium scan temporarily unavailable. Please try again in a moment.")

\* what the handler goes on with after its try/except around scan_website: the
\* scan's result, or the fallback results when the scan raised
ScanResultsOrFallback ==
    IF scan_result = Raised THEN get_fallback_results(url) ELSE {scan_result.value}

\* the fields both endpoints put in their success response (scan_date and
\* scan_duration, read from the clock, are left out)
CommonFields(scan_results) ==
    [code |-> 200,
     status |-> "success",
     url |-> url,
     pages_scanned |-> Get(scan_results, "pages_scanned", 1),
     total_violations |-> Get(scan_results, "total_violations", 0),
     compliance_score |-> Get(scan_results, "compliance_score", 100),
     lawsuit_risk |-> calculate_risk(AsPython(scan_results)),
     violations_by_severity |-> Get(scan_results, "violations_by_severity", ZeroCategories)]

\* /scan: from the end of scanner_service.scan_website to jsonify(response_data)
RespondScan ==
    /\ request # NoRequest
    /\ request.endpoint = "/scan"
    /\ response = NoResponse
    /\ pc \in {"done", "raised"}
    /\ \E scan_results \in ScanResultsOrFallback :
          response' = CommonFields(scan_results) @@
                      [sample_violations |-> Get(scan_results, "sample_violations", <<>>),
                       is_free_tier |-> TRUE]
    /\ UNCHANGED <<request, scanVars, envVars, riskVars, backendVars>>

\* /scan/premium: from the end of scanner_service.scan_website to jsonify(response_data)
RespondPremium ==
    /\ request # NoRequest
    /\ request.endpoint = "/scan/premium"
    /\ response = NoResponse
    /\ pc \in {"done", "raised"}
    /\ \E scan_results \in ScanResultsOrFallback :
          LET violations == Get(scan_results, "violations", <<>>) IN
          response' = CommonFields(scan_results) @@
                      [all_violations |-> Get(scan_results, "violations", <<>>),
                       remediation_guide |-> generate_remediation_guide(violations, url),
                       is_premium |-> TRUE]
    /\ UNCHANGED <<request, scanVars, envVars, riskVars, backendVars>>

\* the sites the endpoints are run against
DownSite ==
    [sitemap |-> {NetError}, home |-> {NetError}, heads |-> {[path \in LivePaths |-> 0]},
     page |-> {NetError}]
SmallSite ==
    [sitemap |-> {Status(404), Ok(<<"https://site.test/a">>)},
     home |-> {Ok(<<Href("/", "about", FALSE)>>)},
     heads |-> {[path \in LivePaths |-> 404], [path \in LivePaths |-> 200]},
     page |-> {Ok(DocClean), Ok(DocOneImage)}]
RouteSites == {DownSite, SmallSite}

InitRoute ==
    /\ ScanIdle
    /\ site \in RouteSites
    /\ risk_in = NoCall
    /\ risk_out = NoResult
    /\ request = NoRequest
    /\ response = NoResponse
    /\ BackendsIdle

NextRoute == ReceiveScan \/ ReceivePremium \/ ScanSteps \/ RespondScan \/ RespondPremium

\* one request to /scan or /scan/premium, handled to its response
SpecRoute == InitRoute /\ [][NextRoute]_vars

(***************************************************************************)
(* Properties of scan_website and _discover_pages (specification Spec)     *)
(***************************************************************************)
ScanReturned == scan_result.status = "returned"
\* _discover_pages has returned its list to scan_website
DiscoveryReturned == pc \in {"loop", "done", "raised"}
\* max_pages is an integer >= 1
PositiveMaxPages == IsInt(max_pages) /\ max_pages[2] >= 1
NoDuplicates(s) == \A i, j \in 1..Len(s) : s[i] = s[j] => i = j

\* C1: in every result scan_website returns, total_violations is the number of
\* violations collected, compliance_score is 100 - 2 * total_violations when that
\* is positive and 0 otherwise, and so lies in 0..100.
C1_ComplianceScore ==
    ScanReturned =>
        LET r == scan_result.value IN
        /\ r.total_violations = Len(all_violations)
        /\ r.compliance_score \in 0..100
        /\ r.total_violations <= 50 => r.compliance_score = 100 - 2 * r.total_violations
        /\ r.total_violations > 50 => r.compliance_score = 0

\* a scan that returned more than 50 violations, where the clamp decides the score
C1_Witness ==
    /\ ScanReturned
    /\ scan_result.value.total_violations > 50
    /\ scan_result.value.compliance_score = 0

\* C2: in every result scan_website returns, the counts of critical, serious,
\* moderate and minor violations add up to total_violations.
C2_SeveritySum ==
    ScanReturned =>
        LET r == scan_result.value
            by == r.violations_by_severity
        IN  /\ DOMAIN by = Severities
            /\ by["critical"] + by["serious"] + by["moderate"] + by["minor"]
                  = r.total_violations

\* a returned scan that found both serious and moderate violations
C2_Witness ==
    /\ ScanReturned
    /\ scan_result.value.violations_by_severity["serious"] > 0
    /\ scan_result.value.violations_by_severity["moderate"] > 0

\* C3: for an integer max_pages >= 1, whatever the three strategies yielded, the
\* list _discover_pages returns has no duplicates and at most max_pages entries.
C3_DiscoveryBounded ==
    (DiscoveryReturned /\ PositiveMaxPages) =>
        /\ Len(discovered) <= max_pages[2]
        /\ NoDuplicates(discovered)

\* discovery collected more pages than max_pages (a sitemap that repeats a URL
\* among them) and returned exactly max_pages of them
C3_Witness ==
    /\ DiscoveryReturned
    /\ PositiveMaxPages
    /\ Cardinality(pages) > max_pages[2]
    /\ ~NoDuplicates(sitemap_urls)
    /\ Len(discovered) = max_pages[2]

\* C4: for an integer max_pages >= 1, the list _discover_pages returns holds
\* base_url, as its first element.
C4_BaseUrlFirst ==
    (DiscoveryReturned /\ PositiveMaxPages) =>
        /\ discovered # <<>>
        /\ discovered[1] = url

\* every GET of the base URL so far failed (non-200 or raised), one at least was made
BaseUnreachable ==
    /\ \E i \in 1..Len(net) : net[i].method = "GET" /\ net[i].url = url
    /\ \A i \in 1..Len(net) :
          (net[i].method = "GET" /\ net[i].url = url) => net[i].status # 200
\* the three strategies ran and none yielded a page
NothingDiscovered ==
    /\ sitemap_urls = <<>>
    /\ homepage_links = <<>>
    /\ common_pages = <<>>
    /\ \E i \in 1..Len(net) : net[i].method = "HEAD"

\* C5: when the base URL cannot be fetched and no strategy yields a page,
\* scan_website ends by raising to its caller, not by returning a result.
C5_ScanUnavailableRaised ==
    (pc \in {"done", "raised"} /\ NothingDiscovered /\ BaseUnreachable) =>
        scan_result = Raised

(***************************************************************************)
(* Properties of the endpoints (specification SpecRoute)                   *)
(***************************************************************************)
Responded == response # NoResponse

\* C6: when scan_website raised, the response of /scan and /scan/premium is not
\* a 'success' response with scan figures.
C6_FailedScanNotSuccess ==
    (Responded /\ scan_result = Raised) => response.status # "success"

(***************************************************************************)
(* Properties of the calculator (specification SpecRisk)                   *)
(***************************************************************************)
RiskReturned(fn) == risk_in.fn = fn /\ risk_out.status = "returned"
\* the scan_results argument of a calculate_risk call, and its fields
RiskArg == risk_in.args[1]
RiskFields == {"violations_by_severity", "total_violations", "pages_scanned"}
HasField(field) == IsDict(RiskArg) /\ field \in DOMAIN RiskArg[2]
FieldIs(field, v) == HasField(field) /\ RiskArg[2][field] = v

\* C8: for a scan result whose total_violations is 0, whatever its other fields,
\* calculate_risk returns the clean-site assessment: probability at most 5,
\* urgency NONE, no settlement breakdown.
C8_CleanSite ==
    (RiskReturned("calculate_risk") /\ FieldIs("total_violations", PyInt(0))) =>
        LET a == risk_out.value IN
        /\ a.lawsuit_probability.percentage <= 5
        /\ a.urgency.level = "NONE"
        /\ a.settlement_breakdown = PyNone

\* the clean scan of 10 pages, assessed
C8_Witness ==
    /\ RiskReturned("calculate_risk")
    /\ RiskArg = PyDict(PyScanResult(PyCounts(0, 0, 0, 0), PyInt(0), PyInt(10)))
    /\ risk_out.value.urgency.level = "NONE"

\* the input is malformed in one of the ways the claim lists
Malformed ==
    \/ ~IsDict(RiskArg)
    \/ \E field \in RiskFields : ~HasField(field)
    \/ /\ HasField("violations_by_severity")
       /\ IsDict(RiskArg[2]["violations_by_severity"])
       /\ \E severity \in DOMAIN RiskArg[2]["violations_by_severity"][2] :
             ~IsInt(RiskArg[2]["violations_by_severity"][2][severity])

\* C9 as claimed: on every malformed input calculate_risk returns the baseline
\* of get_fallback_risk.
C9_MalformedGivesFallback ==
    (RiskReturned("calculate_risk") /\ Malformed) => risk_out.value = get_fallback_risk

\* the total_violations and the probability an urgency level was computed from,
\* and that level: of a call of _determine_urgency_level, or of a call of
\* calculate_risk on a well-formed result with violations
UrgencyCase ==
    IF risk_in.fn = "_determine_urgency_level"
    THEN [tv |-> risk_in.args[1], p |-> risk_in.args[2], level |-> risk_out.value]
    ELSE [tv |-> RiskArg[2]["total_violations"][2],
          p |-> risk_out.value.lawsuit_probability.percentage,
          level |-> risk_out.value.urgency.level]
UrgencyComputed ==
    \/ RiskReturned("_determine_urgency_level") /\ risk_in.args[1] >= 1
    \/ /\ RiskReturned("calculate_risk")
       /\ RiskArg \in WellFormedInputs
       /\ RiskArg[2]["total_violations"][2] >= 1

\* C10: for total_violations >= 1 the urgency level is CRITICAL when
\* total_violations > 50 or p > 80; else HIGH when total_violations > 20 or
\* p > 60; else MEDIUM when total_violations > 5 or p > 30; else LOW; and 60
\* violations on 30 pages are CRITICAL.
C10_UrgencyTiers ==
    UrgencyComputed =>
        LET c == UrgencyCase IN
        /\ (c.tv > 50 \/ c.p > 80) => c.level = "CRITICAL"
        /\ (c.tv <= 50 /\ c.p <= 80 /\ (c.tv > 20 \/ c.p > 60)) => c.level = "HIGH"
        /\ (c.tv <= 20 /\ c.p <= 60 /\ (c.tv > 5 \/ c.p > 30)) => c.level = "MEDIUM"
        /\ (c.tv <= 5 /\ c.p <= 30) => c.level = "LOW"
        /\ (risk_in.fn = "calculate_risk" /\ c.tv = 60
              /\ RiskArg[2]["pages_scanned"] = PyInt(30)) => c.level = "CRITICAL"

\* 60 violations on 30 scanned pages, assessed as CRITICAL
C10_Witness ==
    /\ RiskReturned("calculate_risk")
    /\ RiskArg = PyDict(PyScanResult(PyCounts(2, 12, 3, 1), PyInt(60), PyInt(30)))
    /\ risk_out.value.urgency.level = "CRITICAL"

\* calculate_risk returned the assessment of a well-formed scan result that has
\* violations; Tv and Ps are its total_violations and pages_scanned
Assessed ==
    /\ RiskReturned("calculate_risk")
    /\ RiskArg \in WellFormedInputs
    /\ RiskArg[2]["total_violations"][2] >= 1
Tv == RiskArg[2]["total_violations"][2]
Ps == RiskArg[2]["pages_scanned"][2]
\* ten times min(min(2 * tv, 70) + min(ps / 10, 3) + 15, 95)
Probability10(tv, ps) ==
    LET base10 == IF 2 * tv < 70 THEN 20 * tv ELSE 700
        size10 == IF ps < 30 THEN ps ELSE 30
        sum10 == base10 + size10 + 150
    IN  IF sum10 < 950 THEN sum10 ELSE 950
\* p is round(x10 / 10): an integer nearest to it, the even one of two nearest
IsRounded(p, x10) ==
    /\ 10 * p - x10 \in -5..5
    /\ (10 * p - x10 \in {-5, 5}) => p % 2 = 0

\* C11: for total_violations >= 1 and pages_scanned >= 0 the reported lawsuit
\* probability is round(min(min(2 * total_violations, 70)
\* + min(pages_scanned / 10, 3) + 15, 95)), an integer in 0..95.
C11_ProbabilityFormula ==
    Assessed =>
        LET p == risk_out.value.lawsuit_probability.percentage IN
        /\ p \in 0..95
        /\ IsRounded(p, Probability10(Tv, Ps))

\* 1 violation on 15 pages: 2 + 1.5 + 15 = 18.5 is reported as 18
C11_Witness ==
    /\ Assessed
    /\ Tv = 1
    /\ Ps = 15
    /\ risk_out.value.lawsuit_probability.percentage = 18

\* _calculate_financial_exposure returned for the mapping ExposureArg
ExposureReturned == RiskReturned("_calculate_financial_exposure")
ExposureArg == risk_in.args[1]
\* twice m(count) = min(count, 10) + 0.5 * max(0, count - 10)
TwiceM(count) == IF count <= 10 THEN 2 * count ELSE count + 10
\* twice what the tier adds to one end of the exposure, given the cost of one violation
TwiceTierCost(vbs, tier, cost) ==
    IF tier \in DOMAIN vbs /\ vbs[tier] > 0 THEN cost * TwiceM(vbs[tier]) ELSE 0

\* C12: the financial exposure of a violations_by_severity mapping is
\* (15000 + the sum over the tiers with a count above 0 of min_cost * m(count),
\* 15000 + the same sum with max_cost), with m(count) = min(count, 10)
\* + 0.5 * max(0, count - 10) and the bands critical 8000-25000, serious
\* 3000-12000, moderate 1000-5000, minor 500-2000; other severities add nothing.
C12_FinancialExposure ==
    ExposureReturned =>
        LET vbs == ExposureArg
            exposure == risk_out.value
        IN  /\ 2 * exposure[1] = 2 * 15000
                  + TwiceTierCost(vbs, "critical", 8000) + TwiceTierCost(vbs, "serious", 3000)
                  + TwiceTierCost(vbs, "moderate", 1000) + TwiceTierCost(vbs, "minor", 500)
            /\ 2 * exposure[2] = 2 * 15000
                  + TwiceTierCost(vbs, "critical", 25000) + TwiceTierCost(vbs, "serious", 12000)
                  + TwiceTierCost(vbs, "moderate", 5000) + TwiceTierCost(vbs, "minor", 2000)

\* 12 serious violations and 5 of a severity that is no tier:
\* 15000 + 3000 * 11 and 15000 + 12000 * 11
C12_Witness ==
    /\ ExposureReturned
    /\ ExposureArg = [serious |-> 12, unknown |-> 5]
    /\ risk_out.value = <<48000, 147000>>

\* the call was for one severity alone, a cost tier, with an even count 2c, c >= 10
DoubledSingleTier ==
    /\ ExposureReturned
    /\ \E tier \in Severities : DOMAIN ExposureArg = {tier}
    /\ \A tier \in DOMAIN ExposureArg :
          ExposureArg[tier] >= 20 /\ ExposureArg[tier] % 2 = 0
\* the same mapping with its counts halved
Halved(vbs) == [severity \in DOMAIN vbs |-> vbs[severity] \div 2]

\* C13: for one tier alone and every count c >= 10, both ends of the exposure
\* for 2c violations are strictly below twice those for c violations; so they
\* are for 20 against 10 serious violations.
C13_SubLinearExposure ==
    DoubledSingleTier =>
        LET half == _calculate_financial_exposure(Halved(ExposureArg)) IN
        /\ risk_out.value[1] < 2 * half[1]
        /\ risk_out.value[2] < 2 * half[2]

\* 20 serious violations: (60000, 195000), against (45000, 135000) for 10
C13_Witness ==
    /\ DoubledSingleTier
    /\ ExposureArg = [serious |-> 20]
    /\ risk_out.value = <<60000, 195000>>
    /\ _calculate_financial_exposure([serious |-> 10]) = <<45000, 135000>>

\* a settlement breakdown was computed for a total of at least 1 violation: by
\* _calculate_settlement_breakdown called directly, or inside calculate_risk
BreakdownComputed ==
    \/ RiskReturned("_calculate_settlement_breakdown") /\ risk_in.args[2] >= 1
    \/ Assessed
Breakdown ==
    IF risk_in.fn = "_calculate_settlement_breakdown" THEN risk_out.value
    ELSE risk_out.value.settlement_breakdown[2]

\* C14: for total_violations >= 1 the settlement amount is at most 75000,
\* attorney fees are 2.5 times and compliance costs 1.5 times the settlement
\* amount, and the total exposure is the sum of the three, at most 375000.
C14_SettlementCap ==
    BreakdownComputed =>
        LET b == Breakdown IN
        /\ b.settlement_amount.amount <= 75000
        /\ 2 * b.attorney_fees.amount = 5 * b.settlement_amount.amount
        /\ 2 * b.compliance_costs.amount = 3 * b.settlement_amount.amount
        /\ b.total_exposure.amount = b.settlement_amount.amount + b.attorney_fees.amount
                                       + b.compliance_costs.amount
        /\ b.total_exposure.amount <= 375000

\* 151 violations: 45000 + 151 * 200 = 75200 is cut to 75000
C14_Witness ==
    /\ RiskReturned("_calculate_settlement_breakdown")
    /\ risk_in.args[2] = 151
    /\ risk_out.value.settlement_amount.amount = 75000
    /\ risk_out.value.total_exposure.amount = 375000

\* C15: the lawsuit probability calculate_risk reports for a scan result with
\* total_violations 0 is the floor 5, never 0.
C15_ZeroViolationsFloor ==
    (RiskReturned("calculate_risk") /\ FieldIs("total_violations", PyInt(0))) =>
        risk_out.value.lawsuit_probability.percentage = 5

\* the handler of the request has called scanner_service.scan_website(url, max_pages)
ScannerCalled == request # NoRequest /\ pc # "idle"

\* C16: whatever max_pages the client of /scan or /scan/premium supplied, the
\* max_pages the handler passes to scan_website is an integer in 1..50.
C16_MaxPagesClamped ==
    ScannerCalled => (IsInt(max_pages) /\ max_pages[2] \in 1..50)

(***************************************************************************)
(* Properties of _scan_page (specification SpecPage)                       *)
(***************************************************************************)
\* _scan_page returned for a page whose GET answered 200; PageDoc is the page
PageScanned ==
    /\ risk_in.fn = "_scan_page"
    /\ risk_out.status = "returned"
    /\ ~risk_in.args[2].err
    /\ risk_in.args[2].status = 200
PageDoc == risk_in.args[2].body
\* how many elements of the sequence s are in the set S
CountIn(s, S) == Cardinality({k \in 1..Len(s) : s[k] \in S})
\* the page has exactly one h1, every link with an href has a text or an
\* aria-label, and every text, email, password or tel input has an aria-label
\* or a label for its id
WellFormedButImages(doc) ==
    /\ doc.h1 = 1
    /\ \A k \in 1..Len(doc.links) :
          doc.links[k].href = NoAttr \/ doc.links[k].text # ""
             \/ doc.links[k].aria \notin {NoAttr, ""}
    /\ \A k \in 1..Len(doc.inputs) :
          \/ doc.inputs[k].type \notin {"text", "email", "password", "tel"}
          \/ doc.inputs[k].aria \notin {NoAttr, ""}
          \/ \E j \in 1..Len(doc.labels) : doc.labels[j] = doc.inputs[k].id

\* C17: for a fetched page with exactly one h1, no defective links or inputs
\* and exactly m images without an alt attribute, _scan_page returns exactly m
\* violations, all missing_alt_text with severity serious, and the score of a
\* scan of that page alone is max(0, 100 - 2m).
C17_OneViolationPerImage ==
    (PageScanned /\ WellFormedButImages(PageDoc)) =>
        LET m == CountIn(PageDoc.imgs, {NoAttr})
            violations == risk_out.value
        IN  /\ Len(violations) = m
            /\ \A k \in 1..Len(violations) :
                  violations[k].type = "missing_alt_text" /\ violations[k].severity = "serious"
            /\ ScanResult(<<BaseUrl>>, violations, 1).compliance_score
                  = IF m <= 50 THEN 100 - 2 * m ELSE 0

\* C18: an img with alt="" gives no missing_alt_text violation, only an img
\* without an alt attribute does: a fetched page has as many missing_alt_text
\* violations as images without the attribute.
C18_EmptyAltNoViolation ==
    PageScanned =>
        CountIn([k \in 1..Len(risk_out.value) |-> risk_out.value[k].type], {"missing_alt_text"})
            = CountIn(PageDoc.imgs, {NoAttr})

(***************************************************************************)
(* Properties of the page loop and of discovery (specification Spec)       *)
(***************************************************************************)
\* the loop over pages[:max_pages] is running or has ended
InPageLoop == pc \in {"loop", "done"} /\ ~SliceRaises(max_pages)
\* the requests of the loop so far, one per page it has been through: the last
\* idx - 1 requests of the scan
PageRequests == SubSeq(net, Len(net) - (idx - 1) + 1, Len(net))
ViolationsOf(page) == SelectSeq(all_violations, LAMBDA v : v.page = page)

\* C19: a page whose fetch fails (non-200 or an exception) does not abort the
\* scan: it adds no violations and does not count in pages_with_violations,
\* the pages after it are still requested, and scan_website returns a result;
\* it raises for a max_pages it cannot slice with only.
C19_PageFailureSkipped ==
    /\ pc = "raised" => SliceRaises(max_pages)
    /\ InPageLoop =>
          /\ idx - 1 <= Len(net)
          /\ \A k \in 1..(idx - 1) :
                /\ PageRequests[k].method = "GET"
                /\ PageRequests[k].url = LoopPages[k]
                /\ PageRequests[k].status # 200 => ViolationsOf(LoopPages[k]) = <<>>
          /\ pages_with_violations
                <= Cardinality({k \in 1..(idx - 1) : PageRequests[k].status = 200})
          /\ pc = "done" => (idx - 1 = Len(LoopPages) /\ ScanReturned)

\* a scan of two pages returned: the fetch of the first failed, the second was
\* fetched and has violations
C19_Witness ==
    /\ pc = "done"
    /\ ScanReturned
    /\ idx = 3
    /\ PageRequests[1].status # 200
    /\ PageRequests[2].status = 200
    /\ ViolationsOf(LoopPages[2]) # <<>>
    /\ scan_result.value.pages_with_violations = 1

\* the positions in net of the requests of the three strategies: the GET of
\* /sitemap.xml, the GET of the homepage (the one GET of base_url that follows
\* a sleep) and the HEAD requests
SitemapRequests == {i \in 1..Len(net) : net[i].url = urljoin(url, "/sitemap.xml")}
HomepageRequests ==
    {i \in 2..Len(net) : net[i].method = "GET" /\ net[i].url = url /\ net[i - 1].method = "sleep"}
CommonRequests == {i \in 1..Len(net) : net[i].method = "HEAD"}
\* the candidate set when the sitemap strategy has run, and when the homepage
\* strategy has run
PagesAfterSitemap == {url} \cup Range(SliceTo(sitemap_urls, max_pages[2]))
PagesAfterHomepage ==
    PagesAfterSitemap
       \cup Range(SliceTo(homepage_links, max_pages[2] - Cardinality(PagesAfterSitemap)))
\* the strategies' requests come in the order sitemap, homepage, common paths
StrategyOrder ==
    /\ \A i \in SitemapRequests : \A j \in HomepageRequests \cup CommonRequests : i < j
    /\ \A i \in HomepageRequests : \A j \in CommonRequests : i < j
\* the homepage and the common-path strategy have run only with a candidate
\* set below max_pages
LaterStrategiesGuarded ==
    /\ HomepageRequests # {} => Cardinality(PagesAfterSitemap) < max_pages[2]
    /\ CommonRequests # {} => Cardinality(PagesAfterHomepage) < max_pages[2]

\* C20: discovery requests the sitemap, then the homepage, then the common
\* paths, each strategy (the sitemap one too) only when the candidate set,
\* {base_url} at first, holds fewer than max_pages URLs; with max_pages = 1 no
\* strategy issues a request.
C20_StrategiesGuarded ==
    IsInt(max_pages) =>
        /\ StrategyOrder
        /\ SitemapRequests # {} => Cardinality({url}) < max_pages[2]
        /\ LaterStrategiesGuarded
        /\ max_pages[2] = 1 => SitemapRequests \cup HomepageRequests \cup CommonRequests = {}

\* the request of the sitemap, of the homepage strategy failed: a status other
\* than 200, or 0 for a request that raised
SitemapFailed == \E i \in SitemapRequests : net[i].status # 200
HomepageFailed == \E i \in HomepageRequests : net[i].status # 200

\* C21: for max_pages >= 1 a failed strategy raises nothing and yields no URL,
\* and the later strategies still run: after a failed sitemap the homepage is
\* requested when max_pages > 1, after a failed homepage the common paths are
\* checked, a failed common-path check leaves the later paths checked, and
\* when all three fail _discover_pages returns [base_url].
C21_StrategyFailureSwallowed ==
    PositiveMaxPages =>
        /\ pc # "raised"
        /\ SitemapFailed => sitemap_urls = <<>>
        /\ (SitemapFailed /\ max_pages[2] > 1 /\ pc \notin {"sitemap", "homepage"})
              => HomepageRequests # {}
        /\ HomepageFailed => homepage_links = <<>>
        /\ (HomepageFailed /\ pc \notin {"sitemap", "homepage", "common"})
              => CommonRequests # {}
        /\ CommonRequests # {} => Cardinality(CommonRequests) = Len(common_paths)
        /\ \A i \in CommonRequests : net[i].status # 200 => net[i].url \notin Range(common_pages)
        /\ (DiscoveryReturned /\ SitemapFailed /\ HomepageFailed /\ common_pages = <<>>)
              => discovered = <<url>>

\* the sitemap answered 404, the homepage was requested and gave links, a
\* common-path check raised and a later one found a page
C21_Witness ==
    /\ PositiveMaxPages
    /\ DiscoveryReturned
    /\ \E i \in SitemapRequests : net[i].status = 404
    /\ HomepageRequests # {}
    /\ \E i, j \in CommonRequests : i < j /\ net[i].status = 0 /\ net[j].status = 200

\* the requests _scan_page made: the GET requests that are not a strategy's
ScanPageRequests ==
    {i \in 1..Len(net) : net[i].method = "GET"} \ (SitemapRequests \cup HomepageRequests)

\* C22: for max_pages >= 1, pages_scanned of the result is the number of pages
\* _scan_page was invoked on, fetched or not, and
\* pages_with_violations <= pages_scanned <= max_pages.
C22_PagesScanned ==
    (ScanReturned /\ PositiveMaxPages) =>
        LET r == scan_result.value IN
        /\ r.pages_scanned = Cardinality(ScanPageRequests)
        /\ r.pages_with_violations <= r.pages_scanned
        /\ r.pages_scanned <= max_pages[2]

\* a scan with max_pages 2 went through two pages, one of them not fetched
C22_Witness ==
    /\ ScanReturned
    /\ max_pages = PyInt(2)
    /\ scan_result.value.pages_scanned = 2
    /\ \E i \in ScanPageRequests : net[i].status # 200
    /\ scan_result.value.pages_with_violations = 1

(***************************************************************************)
(* Properties of _categorize_violations (specification SpecPage)           *)
(***************************************************************************)
\* C23: _categorize_violations counts every violation in exactly one of the
\* four levels: the counts add up to the number of violations, and a
\* violation without a severity or with a severity that is none of the four
\* is counted as moderate.
C23_UnknownSeverityIsModerate ==
    RiskReturned("_categorize_violations") =>
        LET violations == risk_in.args[1]
            categories == risk_out.value
            Level(v) == IF "severity" \in DOMAIN v /\ v.severity \in Severities
                        THEN v.severity ELSE "moderate"
        IN  /\ DOMAIN categories = Severities
            /\ categories["critical"] + categories["serious"] + categories["moderate"]
                  + categories["minor"] = Len(violations)
            /\ \A level \in Severities :
                  categories[level]
                     = Cardinality({k \in 1..Len(violations) : Level(violations[k]) = level})

\* C24: every HTTP request of a scan (the sitemap GET, the homepage GET, each
\* common-path HEAD, each GET of _scan_page) comes right after a delay, so no
\* two requests follow each other without one.
C24_DelayBeforeEachRequest ==
    \A i \in 1..Len(net) :
        net[i].method \in {"GET", "HEAD"} => (i > 1 /\ net[i - 1].method = "sleep")

(***************************************************************************)
(* Properties of the sample of a scan result (specification SpecPage)      *)
(***************************************************************************)
\* C25: in a scan result sample_violations has at most 2 violations of each
\* of at most 3 pages, so at most 6 entries; every entry is one of
\* all_violations, on one of the first three pages of the discovered list.
C25_SampleViolations ==
    RiskReturned("scan_website.results") =>
        LET discovered_pages == risk_in.args[1]
            sample == risk_out.value.sample_violations
            SamplePages == {sample[k].page : k \in 1..Len(sample)}
        IN  /\ Len(sample) <= 6
            /\ Cardinality(SamplePages) <= 3
            /\ \A page \in SamplePages :
                  Cardinality({k \in 1..Len(sample) : sample[k].page = page}) <= 2
            /\ \A k \in 1..Len(sample) :
                  /\ sample[k] \in Range(risk_out.value.all_violations)
                  /\ \E j \in 1..3 : j <= Len(discovered_pages) /\ discovered_pages[j] = sample[k].page

\* four pages with three violations each: the sample has the first two of
\* each of the first three pages
C25_Witness ==
    /\ RiskReturned("scan_website.results")
    /\ Len(risk_in.args[1]) = 4
    /\ risk_out.value.total_violations = 12
    /\ Len(risk_out.value.sample_violations) = 6

(***************************************************************************)
(* Properties of the /scan/premium response (specification SpecRoute)      *)
(***************************************************************************)
PremiumResponded ==
    /\ request # NoRequest
    /\ request.endpoint = "/scan/premium"
    /\ Responded
    /\ response.status = "success"

\* C26: in a /scan/premium response built from a result scan_website returned,
\* all_violations has total_violations entries, and the remediation guide is
\* made from that full list: with total_violations > 0 it is not the
\* clean-website guide.
C26_PremiumFullList ==
    (PremiumResponded /\ ScanReturned) =>
        /\ Len(response.all_violations) = response.total_violations
        /\ response.remediation_guide =
              generate_remediation_guide(scan_result.value.all_violations, url)
        /\ (response.total_violations > 0 => response.remediation_guide.guide # "clean_website")

(***************************************************************************)
(* The in-memory backend (src/src/main.py)                                 *)
(*                                                                         *)
(* A request is handled from its first line to its response in one step.   *)
(* Clock readings (created_at, scan_date) and the figures of               *)
(* generate_mock_scan_data are left out of the records; last_scan is None  *)
(* or the reading Now.                                                     *)
(***************************************************************************)
MaxServed == 3              \* the most requests a run sends to the backend

Now == "utcnow"
Reply(code) == [code |-> code]
NoData == [json |-> "none"]

\* d[key] = value of a Python dict held as a function
SetItem(d, key, value) == (key :> value) @@ d

\* email.strip().lower() of the addresses the requests carry
StripLower ==
    ("" :> "") @@ ("not-an-email" :> "not-an-email")
    @@ (" Demo@SentryPrime.com" :> "demo@sentryprime.com")
    @@ ("ann@x.io" :> "ann@x.io") @@ ("bob@x.io" :> "bob@x.io")
validate_email(email) == email \in {"demo@sentryprime.com", "ann@x.io", "bob@x.io"}
generate_password_hash(password) == <<"hash", password>>

User(id, email, password, first_name, last_name) ==
    [id |-> id, email |-> email, password_hash |-> generate_password_hash(password),
     first_name |-> first_name, last_name |-> last_name, email_verified |-> TRUE]
Website(id, user_id, u, name, last_scan) ==
    [id |-> id, user_id |-> user_id, url |-> u, name |-> name, last_scan |-> last_scan,
     status |-> "active"]
Scan(id, user_id, website_id, u) ==
    [id |-> id, user_id |-> user_id, website_id |-> website_id, url |-> u]

sample_websites ==
    << [url |-> "https://example.com", name |-> "Example Corp"],
       [url |-> "https://mystore.com", name |-> "My Online Store"],
       [url |-> "https://blog.example.com", name |-> "Company Blog"] >>

\* the module is loaded and initialize_sample_data() has run: the demo user is
\* stored under id 1, the sample websites and 2..5 scans of each take their ids
\* from website_counter and scan_counter
initialize_sample_data ==
    /\ users_db = (1 :> User(1, "demo@sentryprime.com", "demo123", "Demo", "User"))
    /\ user_counter = 1
    /\ websites_db = [id \in 1..3 |->
                         Website(id, 1, sample_websites[id].url, sample_websites[id].name, Now)]
    /\ website_counter = 4
    /\ \E scans \in [1..3 -> RandInt(2, 5)] :
          LET WebsiteOf(scan_id) ==
                  IF scan_id <= scans[1] THEN 1
                  ELSE IF scan_id <= scans[1] + scans[2] THEN 2 ELSE 3
          IN  /\ scans_db = [scan_id \in 1..(scans[1] + scans[2] + scans[3]) |->
                                Scan(scan_id, 1, PyInt(WebsiteOf(scan_id)),
                                     sample_websites[WebsiteOf(scan_id)].url)]
              /\ scan_counter = scans[1] + scans[2] + scans[3] + 1

\* the Authorization header of a request: none, one no key signed, or the
\* token generate_token made for a user id
NoToken == <<"no token">>
InvalidToken == <<"invalid token">>
Tokens == {NoToken, InvalidToken} \cup { <<"token", user_id>> : user_id \in 1..MaxServed }
\* get_user_from_request(): verify_token gives users_db.get(payload['user_id']);
\* NoUser is its None
NoUser == [none |-> TRUE]
get_user_from_request(token) ==
    IF token \in {NoToken, InvalidToken} THEN NoUser
    ELSE IF token[2] \in DOMAIN users_db THEN users_db[token[2]] ELSE NoUser

Answer(code) ==
    /\ reply' = Reply(code)
    /\ served' = served + 1
Rejected(code) ==
    /\ Answer(code)
    /\ UNCHANGED <<users_db, websites_db, scans_db, user_counter, website_counter,
                   scan_counter>>

RegisterData ==
    {NoData} \cup { [email |-> email, password |-> password] :
                      email \in DOMAIN StripLower, password \in {"", "12345", "secret1"} }

\* POST /api/auth/register
register ==
    /\ served < MaxServed
    /\ \E data \in RegisterData :
          IF data = NoData THEN Rejected(400)
          ELSE LET email == StripLower[data.email]
                   user_id == user_counter
               IN  IF email = "" \/ data.password = "" THEN Rejected(400)
                   ELSE IF ~validate_email(email) THEN Rejected(400)
                   ELSE IF Len(data.password) < 6 THEN Rejected(400)
                   ELSE IF \E id \in DOMAIN users_db : users_db[id].email = email
                   THEN Rejected(409)
                   ELSE /\ user_counter' = user_counter + 1
                        /\ users_db' = SetItem(users_db, user_id,
                                               User(user_id, email, data.password, "", ""))
                        /\ Answer(201)
                        /\ UNCHANGED <<websites_db, scans_db, website_counter, scan_counter>>
    /\ UNCHANGED <<scanVars, envVars, riskVars, routeVars, sqlVars>>

\* name = url.replace('https://', '').replace('http://', '').replace('www.', '')
GeneratedName ==
    ("https://example.com" :> "example.com") @@ ("https://www.shop.test" :> "shop.test")
WebsiteData ==
    {NoData} \cup { [url |-> u, name |-> ""] : u \in {"", "example.com", "https://www.shop.test"} }
\* url.startswith(('http://', 'https://')) of the urls the requests carry
WithScheme(u) == IF u \in {"example.com", "shop.test"} THEN "https://" \o u ELSE u

\* POST /api/dashboard/websites
add_website ==
    /\ served < MaxServed
    /\ \E token \in Tokens, data \in WebsiteData :
          LET user == get_user_from_request(token) IN
          IF user = NoUser THEN Rejected(401)
          ELSE IF data = NoData THEN Rejected(400)
          ELSE IF data.url = "" THEN Rejected(400)
          ELSE LET u == WithScheme(data.url)
                   website_id == website_counter
               IN  IF \E id \in DOMAIN websites_db :
                         websites_db[id].user_id = user.id /\ websites_db[id].url = u
                   THEN Rejected(409)
                   ELSE /\ website_counter' = website_counter + 1
                        /\ websites_db' =
                              SetItem(websites_db, website_id,
                                      Website(website_id, user.id, u, GeneratedName[u], PyNone))
                        /\ Answer(201)
                        /\ UNCHANGED <<users_db, scans_db, user_counter, scan_counter>>
    /\ UNCHANGED <<scanVars, envVars, riskVars, routeVars, sqlVars>>

ScanData ==
    {NoData} \cup { [website_id |-> website_id, url |-> u] :
                      website_id \in {PyNone, PyInt(1), PyInt(4), PyInt(9)},
                      u \in {PyNone, PyStr("https://www.shop.test")} }

\* POST /api/dashboard/scan
trigger_scan ==
    /\ served < MaxServed
    /\ \E token \in Tokens, data \in ScanData :
          LET user == get_user_from_request(token) IN
          IF user = NoUser THEN Rejected(401)
          ELSE IF data = NoData THEN Rejected(400)
          ELSE IF data.website_id = PyNone /\ data.url = PyNone THEN Rejected(400)
          ELSE LET found == data.website_id # PyNone /\ data.website_id[2] \in DOMAIN websites_db
                   scan_id == scan_counter
               IN  IF data.website_id # PyNone
                      /\ (~found \/ websites_db[data.website_id[2]].user_id # user.id)
                   THEN Rejected(404)
                   ELSE /\ scan_counter' = scan_counter + 1
                        /\ scans_db' =
                              SetItem(scans_db, scan_id,
                                      Scan(scan_id, user.id, data.website_id,
                                           IF found THEN websites_db[data.website_id[2]].url
                                           ELSE data.url[2]))
                        /\ websites_db' =
                              IF found
                              THEN [websites_db EXCEPT ![data.website_id[2]].last_scan = Now]
                              ELSE websites_db
                        /\ Answer(201)
                        /\ UNCHANGED <<users_db, user_counter, website_counter>>
    /\ UNCHANGED <<scanVars, envVars, riskVars, routeVars, sqlVars>>

\* POST /api/scan/premium: the scan is saved when the request carries a user
premium_scan ==
    /\ served < MaxServed
    /\ \E token \in Tokens, data \in {NoData, [url |-> "https://www.shop.test"]} :
          LET user == get_user_from_request(token) IN
          IF data = NoData THEN Rejected(500)
          ELSE IF user = NoUser THEN Rejected(200)
          ELSE /\ scan_counter' = scan_counter + 1
               /\ scans_db' = SetItem(scans_db, scan_counter,
                                      Scan(scan_counter, user.id, PyNone, data.url))
               /\ Answer(200)
               /\ UNCHANGED <<users_db, websites_db, user_counter, website_counter>>
    /\ UNCHANGED <<scanVars, envVars, riskVars, routeVars, sqlVars>>

InitMemory ==
    /\ ScanIdle
    /\ site = DownSite
    /\ risk_in = NoCall
    /\ risk_out = NoResult
    /\ request = NoRequest
    /\ response = NoResponse
    /\ initialize_sample_data
    /\ served = 0
    /\ website_rows = {}
    /\ subscription = NoSubscription
    /\ reply = NoReply

NextMemory == register \/ add_website \/ trigger_scan \/ premium_scan

\* the in-memory backend after startup, answering requests one at a time
SpecMemory == InitMemory /\ [][NextMemory]_vars

(***************************************************************************)
(* Properties of the in-memory backend (specification SpecMemory)          *)
(***************************************************************************)
\* register answered 201
Registered == served' = served + 1 /\ reply'.code = 201 /\ user_counter' # user_counter

\* C27: after startup, whatever requests register, add_website, trigger_scan and
\* premium_scan answer, a successful creation stores its record under an id no
\* record of that store uses: no user, website or scan is overwritten, and a
\* successful register makes the number of users one larger.
C27_NoRecordOverwritten ==
    [][ /\ \A id \in DOMAIN users_db : id \in DOMAIN users_db' /\ users_db'[id] = users_db[id]
        /\ \A id \in DOMAIN websites_db :
              /\ id \in DOMAIN websites_db'
              /\ [websites_db'[id] EXCEPT !.last_scan = Now] =
                    [websites_db[id] EXCEPT !.last_scan = Now]
        /\ \A id \in DOMAIN scans_db : id \in DOMAIN scans_db' /\ scans_db'[id] = scans_db[id]
        /\ (Registered =>
               Cardinality(DOMAIN users_db') = Cardinality(DOMAIN users_db) + 1) ]_vars

(***************************************************************************)
(* The SQL-backed backend: /websites of routes/user.py over the Website    *)
(* and Subscription models. One authenticated user sends the requests; a   *)
(* request is handled from its first line to its response in one step.     *)
(***************************************************************************)
MaxWebsiteId == 11          \* the largest primary key of the Website table

CurrentUser == 2            \* current_user.id; user 1 is another account
\* a Website row as the handler creates it: is_active takes the column default
WebsiteRow(id, user_id, u, name, scan_frequency) ==
    [id |-> id, user_id |-> user_id, url |-> u, name |-> name,
     scan_frequency |-> scan_frequency, is_active |-> TRUE]
\* Subscription rows: plan and status of the user's subscription
Subscriptions ==
    { [plan |-> plan, status |-> status] :
        plan \in {"starter", "pro", "agency", "enterprise"},
        status \in {"active", "canceled"} }

\* Website.query.filter_by(user_id=current_user.id, is_active=True).count()
website_count == Cardinality({w \in website_rows : w.user_id = CurrentUser /\ w.is_active})
\* limits.get(subscription.plan, 1)
limits == [starter |-> 1, pro |-> 3, agency |-> 10]
Limit(plan) == IF plan \in DOMAIN limits THEN limits[plan] ELSE 1
LimitReached_off_by_one(count, limit) == count > limit
LimitReached(count, limit) == count >= limit

\* the primary key the database gives a new row: one more than the largest
NextId ==
    LET ids == {w.id : w \in website_rows} IN
    IF ids = {} THEN 1 ELSE 1 + (CHOOSE id \in ids : \A other \in ids : other <= id)

SqlRequest(method, body) == [endpoint |-> "/websites", method |-> method, body |-> body]
SqlReply(code, text) == [code |-> code, text |-> text]
\* the JSON bodies of POST /websites
AddWebsiteData ==
    {NoData} \cup { [url |-> u, name |-> name] :
                      u \in {PyStr(""), PyStr("shop.test"), PyStr("https://shop.test"), PyInt(5)},
                      name \in {PyStr(""), PyStr("Shop")} }
WellFormedAdd(data) ==
    /\ data # NoData
    /\ data.url \in {PyStr("shop.test"), PyStr("https://shop.test")}
    /\ data.name = PyStr("Shop")

\* POST /websites
user_add_website ==
    /\ \E data \in AddWebsiteData :
          /\ request' = SqlRequest("POST", data)
          /\ IF data = NoData \/ data.url = PyStr("") \/ data.name = PyStr("")
             THEN /\ reply' = SqlReply(400, "URL and name are required")
                  /\ UNCHANGED website_rows
             ELSE IF data.url[1] # "str"
             THEN \* data['url'].strip() raises: the except clause answers
                  /\ reply' = SqlReply(500, "Failed to add website")
                  /\ UNCHANGED website_rows
             ELSE IF subscription = NoSubscription
             THEN /\ reply' = SqlReply(403, "Active subscription required")
                  /\ UNCHANGED website_rows
             ELSE IF LimitReached(website_count, Limit(subscription.plan))
             THEN /\ reply' = SqlReply(403, "Website limit reached for "
                                            \o subscription.plan \o " plan")
                  /\ UNCHANGED website_rows
             ELSE /\ NextId <= MaxWebsiteId
                  /\ \/ /\ website_rows' = website_rows \cup
                              {WebsiteRow(NextId, CurrentUser, WithScheme(data.url[2]),
                                          data.name[2], "monthly")}
                        /\ reply' = SqlReply(201, "Website added successfully")
                     \/ \* db.session.commit() raises: rollback
                        /\ reply' = SqlReply(500, "Failed to add website")
                        /\ UNCHANGED website_rows
    /\ UNCHANGED <<scanVars, envVars, riskVars, response, memoryVars, subscription>>

\* DELETE /websites/<website_id>
user_delete_website ==
    /\ \E website_id \in 1..MaxWebsiteId :
          LET found == {w \in website_rows : w.id = website_id /\ w.user_id = CurrentUser} IN
          /\ request' = SqlRequest("DELETE", [website_id |-> website_id])
          /\ IF found = {}
             THEN /\ reply' = SqlReply(404, "Website not found")
                  /\ UNCHANGED website_rows
             ELSE \/ /\ website_rows' = website_rows \ found
                     /\ reply' = SqlReply(200, "Website deleted successfully")
                  \/ \* db.session.commit() raises: rollback
                     /\ reply' = SqlReply(500, "Failed to delete website")
                     /\ UNCHANGED website_rows
    /\ UNCHANGED <<scanVars, envVars, riskVars, response, memoryVars, subscription>>

\* the user has no website yet; the table holds one of another user
InitSql ==
    /\ ScanIdle
    /\ site = DownSite
    /\ risk_in = NoCall
    /\ risk_out = NoResult
    /\ request = NoRequest
    /\ response = NoResponse
    /\ users_db = <<>>
    /\ websites_db = <<>>
    /\ scans_db = <<>>
    /\ user_counter = 1
    /\ website_counter = 1
    /\ scan_counter = 1
    /\ served = 0
    /\ website_rows = {WebsiteRow(1, 1, "https://other.test", "Other", "weekly")}
    /\ subscription \in {NoSubscription} \cup Subscriptions
    /\ reply = NoReply

NextSql == user_add_website \/ user_delete_website

\* one user's add_website and delete_website requests, one at a time
SpecSql == InitSql /\ [][NextSql]_vars

(***************************************************************************)
(* Properties of the SQL-backed backend (specification SpecSql)            *)
(***************************************************************************)
\* the step answers a POST /websites that the handler's validation accepts
AddAnswered ==
    /\ request'.method = "POST"
    /\ WellFormedAdd(request'.body)
    /\ <<request, reply, website_rows>>' # <<request, reply, website_rows>>
PlanLimit == Limit(subscription.plan)

\* C28: whatever add_website and delete_website requests the user sends, the
\* user's active websites never exceed the limit of the plan (starter 1, pro 3,
\* agency 10, any other 1); a request that would exceed it is answered 403 and
\* adds nothing; a user with no subscription never gets a website added.
C28_PlanLimit ==
    /\ [](subscription # NoSubscription => website_count <= PlanLimit)
    /\ [](subscription = NoSubscription => website_count = 0)
    /\ [][ (AddAnswered /\ (subscription = NoSubscription \/ website_count >= PlanLimit)) =>
              (reply'.code = 403 /\ website_rows' = website_rows) ]_vars

\* a pro user with 3 websites was refused a fourth
C28_Witness ==
    /\ subscription # NoSubscription
    /\ subscription.plan = "pro"
    /\ website_count = 3
    /\ request # NoRequest
    /\ request.method = "POST"
    /\ reply.code = 403

(***************************************************************************)
(* Relations between assessments (specification SpecRisk)                  *)
(***************************************************************************)
UrgencyRank == [LOW |-> 1, MEDIUM |-> 2, HIGH |-> 3, CRITICAL |-> 4]
\* the urgency level calculate_risk reports for tv violations on ps pages, the
\* severity counts being those of the assessed scan result
UrgencyOf(tv, ps) ==
    calculate_risk(PyDict(PyScanResult(RiskArg[2]["violations_by_severity"],
                                       PyInt(tv), PyInt(ps)))).urgency.level

\* C29: the urgency level calculate_risk reports is monotone in the order
\* LOW < MEDIUM < HIGH < CRITICAL: with pages_scanned fixed it does not go down
\* when total_violations (>= 1) goes up, and with total_violations fixed it
\* does not go down when pages_scanned goes up. Each assessment is compared with
\* those of one violation less and of one page less, which gives every pair.
C29_UrgencyMonotone ==
    Assessed =>
        LET level == risk_out.value.urgency.level IN
        /\ level \in DOMAIN UrgencyRank
        /\ Tv >= 2 => UrgencyRank[UrgencyOf(Tv - 1, Ps)] <= UrgencyRank[level]
        /\ Ps >= 1 => UrgencyRank[UrgencyOf(Tv, Ps - 1)] <= UrgencyRank[level]

\* 32 violations: CRITICAL on 20 pages, HIGH on 10 pages and with 20 violations
C29_Witness ==
    /\ Assessed
    /\ Tv = 32
    /\ Ps = 20
    /\ risk_out.value.urgency.level = "CRITICAL"
    /\ UrgencyOf(32, 10) = "HIGH"
    /\ UrgencyOf(20, 20) = "MEDIUM"

\* C30: in an assessment calculate_risk returns for total_violations >= 1, a
\* lawsuit_probability.risk_level of 'EXTREME' comes with an urgency.level of
\* 'CRITICAL'.
C30_ExtremeIsCritical ==
    (Assessed /\ risk_out.value.lawsuit_probability.risk_level = "EXTREME") =>
        risk_out.value.urgency.level = "CRITICAL"

====
